---- MODULE Spec2Model ----
(***************************************************************************)
(* Model of photo-sync-server: the session tracker, the duplicate          *)
(* detector, the photo index and the ingestion handler that composes them. *)
(*                                                                         *)
(* Text (identifiers, file names) is a sequence of code points.  Capture   *)
(* timestamps are integers counted in half seconds; the wall clock that    *)
(* drives session expiry is counted in minutes.                            *)
(***************************************************************************)
EXTENDS Integers, Sequences, FiniteSets, TLC

VARIABLES
    sessions,     \* SessionStore.sessions: token -> Session
    issued,       \* tokens uuid.New has produced so far (never produced twice)
    hashDB,       \* DuplicateCheck.hashDB: content hash -> FileHashInfo
    index,        \* Indexer.index: normalized counter -> sequence of PhotoInfo
    disk,         \* photo_index.json as last written: counter -> sequence of JSON objects
    files,        \* the file store: relative path -> what the file holds
    nanos,        \* time.Now().UnixNano() as last read by SaveFile
    clock,        \* time.Now(), in minutes
    tickPending,  \* a tick of the cleanup ticker waits in ticker.C
    resp,         \* the response of the last request
    pc,           \* goroutine -> the call it stands in or waits at
    local,        \* goroutine -> its local variables
    locks         \* the three sync.RWMutex: s.mu, dc.mu, idx.mu

\* the goroutines and their locks; a request handled in one step leaves
\* them alone
concVars == <<pc, local, locks>>

vars == <<sessions, issued, hashDB, index, disk, files, nanos, clock, tickPending, resp,
          pc, local, locks>>

----------------------------------------------------------------------------
(* Bounds of the model *)

\* the largest total a client announces
MaxTotal == 3
\* duplicates recorded per session
MaxSkipped == 1
\* save errors recorded per session
MaxErrors == 1
\* minutes the clock is observed before and after the one-hour mark
TimeSlack == 1
\* records the index holds when AddPhoto is called on its own
MaxPhotos == 3
\* characters in a counter number whose spellings are compared
MaxSpelling == 3
\* zero bytes before and behind the run in an Exif segment
MaxPad == 2
MaxTrail == 2
\* the largest length field and the most bytes behind it in a short buffer
MaxLength == 8
MaxTail == 6
\* the most photos of the bucket a list-index request reads beside AddPhoto
MaxBucket == 4

----------------------------------------------------------------------------
(* Units and program constants *)

\* the ticker period of cleanup, 1 * time.Minute, in clock units
Minute == 1
\* the expiry threshold of cleanup, 1 * time.Hour, in clock units
Hour == 60
\* time.Second in capture-timestamp units (half seconds)
Second == 2

StatusWaiting == "waiting"
StatusReady == "ready"
StatusSyncing == "syncing"
StatusCompleted == "completed"
StatusError == "error"

----------------------------------------------------------------------------
(* Text *)

\* the code points of "unknown"
Unknown == <<117, 110, 107, 110, 111, 119, 110>>
EmptyText == <<>>

\* unicode.ToLower on the code points the model uses: A-Z, the Cyrillic
\* capitals and capital IO; every other code point of the model has no
\* lower-case form different from itself.
ToLowerRune(r) ==
    IF r >= 65 /\ r <= 90 THEN r + 32
    ELSE IF r >= 1040 /\ r <= 1071 THEN r + 32
    ELSE IF r = 1025 THEN 1105
    ELSE r

\* the predicate of the strings.Map callback: a-z, 0-9, Cyrillic a-ya, io
KeepRune(r) ==
    \/ (r >= 97 /\ r <= 122)
    \/ (r >= 48 /\ r <= 57)
    \/ (r >= 1072 /\ r <= 1103)
    \/ r = 1105

\* a normalization that lower-cases and drops no character
NormalizeDropNothing(counterNumber) ==
    [i \in 1..Len(counterNumber) |-> ToLowerRune(counterNumber[i])]

\* NormalizeCounterNumber: strings.ToLower, then strings.Map drops every
\* character the callback does not keep
NormalizeCounterNumber(counterNumber) ==
    LET lower == [i \in 1..Len(counterNumber) |-> ToLowerRune(counterNumber[i])]
    IN  SelectSeq(lower, KeepRune)

----------------------------------------------------------------------------
(* Comment scanner: handlers, extractUserCommentFromEXIF and findUserComment. *)
(* A buffer is a sequence of bytes; At reads it with Go's 0-based offsets.    *)

At(data, k) == data[k + 1]

\* data[lo:hi] of a Go slice
Slice(data, lo, hi) == SubSeq(data, lo + 1, hi)

isAlphanumeric(b) ==
    \/ (b >= 97 /\ b <= 122)
    \/ (b >= 65 /\ b <= 90)
    \/ (b >= 48 /\ b <= 57)

isCyrillic(b) == (b >= 208 /\ b <= 223) \/ (b >= 224 /\ b <= 239)

\* A digit is a single-byte rune and never part of a longer one, so ranging
\* over the runes of s finds a digit exactly when some byte of s is one.
containsDigit(s) == \E i \in 1..Len(s) : s[i] >= 48 /\ s[i] <= 57

\* Every byte above 127 decodes to a rune that is no ASCII letter or digit.
isOnlyAlphanumeric(s) == \A i \in 1..Len(s) : isAlphanumeric(s[i])

\* the inner loop of both scans: the first offset j >= i where the run ends
RECURSIVE RunEnd(_, _)
RunEnd(dataStr, j) ==
    IF j < Len(dataStr) /\ (isAlphanumeric(At(dataStr, j)) \/ isCyrillic(At(dataStr, j)))
    THEN RunEnd(dataStr, j + 1)
    ELSE j

\* the first loop of findUserComment, from offset i: runs of 10 and more
RECURSIVE ScanLong(_, _)
ScanLong(dataStr, i) ==
    IF ~(i < Len(dataStr) - 10) THEN <<>>
    ELSE IF isAlphanumeric(At(dataStr, i))
         THEN LET j == RunEnd(dataStr, i)
                  candidate == Slice(dataStr, i, j)
              IN  IF j - i >= 10 /\ containsDigit(candidate)
                  THEN candidate
                  ELSE ScanLong(dataStr, j + 1)
         ELSE ScanLong(dataStr, i + 1)

\* the second loop of findUserComment, from offset i: runs of 8 and 9
RECURSIVE ScanShort(_, _)
ScanShort(dataStr, i) ==
    IF ~(i < Len(dataStr) - 8) THEN <<>>
    ELSE IF isAlphanumeric(At(dataStr, i))
         THEN LET j == RunEnd(dataStr, i)
                  candidate == Slice(dataStr, i, j)
              IN  IF j - i >= 8 /\ j - i < 10
                     /\ containsDigit(candidate) /\ isOnlyAlphanumeric(candidate)
                  THEN candidate
                  ELSE ScanShort(dataStr, j + 1)
         ELSE ScanShort(dataStr, i + 1)

findUserComment(exifData) ==
    LET long == ScanLong(exifData, 0)
    IN  IF long # <<>> THEN long ELSE ScanShort(exifData, 0)

\* binary.BigEndian.Uint16
Uint16(hi, lo) == hi * 256 + lo

ExifHeader == <<69, 120, 105, 102, 0, 0>>

\* What a call of the scanner comes to: a string, or a run-time panic
\* (a slice expression past the end of the buffer).
Returned(text) == [panic |-> FALSE, text |-> text]
Panicked == [panic |-> TRUE, text |-> <<>>]

\* the marker walk of extractUserCommentFromEXIF, from `offset`
RECURSIVE WalkSegments(_, _)
WalkSegments(data, offset) ==
    IF ~(offset < Len(data) - 1) THEN Returned(<<>>)
    ELSE IF At(data, offset) # 255 THEN Returned(<<>>)
    ELSE
      LET marker == At(data, offset + 1)
          off == offset + 2
      IN  IF marker = 255 THEN WalkSegments(data, off)
          ELSE IF off + 2 > Len(data) THEN Returned(<<>>)
          ELSE
            LET length == Uint16(At(data, off), At(data, off + 1))
            IN  IF marker = 225
                THEN IF length < 2 \/ off + length > Len(data) THEN Returned(<<>>)
                     ELSE IF off + 6 <= Len(data)
                          THEN \* data[offset+2 : offset+8] is evaluated here
                               IF off + 8 > Len(data) THEN Panicked
                               ELSE IF Slice(data, off + 2, off + 8) = ExifHeader
                                    THEN LET comment == findUserComment(Slice(data, off + 2, off + length))
                                         IN  IF comment # <<>> THEN Returned(comment)
                                             ELSE WalkSegments(data, off + length)
                                    ELSE WalkSegments(data, off + length)
                          ELSE WalkSegments(data, off + length)
                ELSE IF length < 2 THEN Returned(<<>>)
                     ELSE WalkSegments(data, off + length)

extractUserCommentFromEXIF(data) ==
    IF Len(data) < 2 \/ At(data, 0) # 255 \/ At(data, 1) # 216
    THEN Returned(<<>>)
    ELSE WalkSegments(data, 2)

extractCounterNumberFromEXIF(data) == extractUserCommentFromEXIF(data)

\* The runes of a string the scanner returned.  Inside a run every byte above
\* 127 is a lead byte (0xD0..0xEF) followed by no continuation byte, so each
\* decodes to U+FFFD on its own.
Runes(bytes) == [i \in 1..Len(bytes) |-> IF bytes[i] < 128 THEN bytes[i] ELSE 65533]

----------------------------------------------------------------------------
(* models: Session *)

NewSession(token, now) ==
    [Token |-> token, Status |-> StatusWaiting, Total |-> 0, Uploaded |-> 0,
     Skipped |-> 0, StartTime |-> now, LastUpdate |-> now,
     CurrentFile |-> <<>>, Errors |-> <<>>]

\* Session.Update: the last-activity time becomes now
SessionUpdate(session, now) == [session EXCEPT !.LastUpdate = now]

\* Session.GetProgress, in percent; the quotient is exact in the code and
\* floored here
GetProgress(session) ==
    IF session.Total = 0 THEN 0
    ELSE ((session.Uploaded + session.Skipped) * 100) \div session.Total

----------------------------------------------------------------------------
(* storage: SessionStore *)

\* SessionStore.Create: a new session under the token
StoreCreate(store, token, now) ==
    [t \in DOMAIN store \cup {token} |->
        IF t = token THEN NewSession(token, now) ELSE store[t]]

\* SessionStore.Get: the session and whether it exists
StoreGet(store, token) ==
    [exists |-> token \in DOMAIN store,
     session |-> IF token \in DOMAIN store THEN store[token] ELSE NewSession(token, 0)]

\* an update that runs the updater on every session of the store
StoreUpdateAll(store, token, updater, now) ==
    IF token \in DOMAIN store
    THEN [t \in DOMAIN store |-> SessionUpdate(updater[t], now)]
    ELSE store

\* an update that creates the session of an unknown token
StoreUpsert(store, token, updater, now) ==
    IF token \in DOMAIN store
    THEN [store EXCEPT ![token] = SessionUpdate(updater[token], now)]
    ELSE StoreCreate(store, token, now)

\* SessionStore.Update: updater runs on the session of `token`, then
\* session.Update(); an unknown token changes nothing and reports false.
\* `updater` is the closure as a table: the session it turns each stored
\* session into.
StoreUpdate(store, token, updater, now) ==
    IF token \in DOMAIN store
    THEN [store EXCEPT ![token] = SessionUpdate(updater[token], now)]
    ELSE store

\* SessionStore.Delete
StoreDelete(store, token) == [t \in DOMAIN store \ {token} |-> store[t]]

\* expiry measured from the start time instead of the last activity
ExpiredSinceStart(session, now) == now - session.StartTime > Hour

\* expiry after a day instead of an hour
ExpiredAfterDay(session, now) == now - session.LastUpdate > 24 * Hour

\* the test of cleanup's loop body: now.Sub(session.LastUpdate) > 1*time.Hour
Expired(session, now) == now - session.LastUpdate > Hour

\* one pass of cleanup's loop body over the map
StoreSweep(store, now) ==
    [t \in {u \in DOMAIN store : ~Expired(store[u], now)} |-> store[t]]

----------------------------------------------------------------------------
(* Capture timestamps *)

\* time.Now() as a capture timestamp: the clock's minutes in half seconds
NowDate(now) == now * 60 * Second

\* The dateTaken form value: absent, unparsable, or an RFC3339 text, which
\* is modelled by the instant it denotes (RFC3339 admits fractional seconds).
NoDateStr == [kind |-> "empty", instant |-> 0]
BadDateStr == [kind |-> "bad", instant |-> 0]
DateStr(d) == [kind |-> "rfc3339", instant |-> d]

\* lines 131-136 of SyncHandler: time.Parse, with time.Now() as the fallback
ParseDateTaken(dateTakenStr, now) ==
    IF dateTakenStr.kind = "rfc3339" THEN dateTakenStr.instant ELSE NowDate(now)

\* Time.Format(time.RFC3339): the fraction of a second is dropped
FormatRFC3339(d) == [kind |-> "rfc3339", instant |-> (d \div Second) * Second]

\* the difference of two times with its sign
SignedTimeDiff(t1, t2) == t1 - t2

absTimeDiff(t1, t2) == IF t1 - t2 < 0 THEN -(t1 - t2) ELSE t1 - t2

----------------------------------------------------------------------------
(* storage: DuplicateCheck *)

\* a relative path SaveFile makes, "<base>_<UnixNano><ext>", by its parts
RelPath(base, stamp, ext) == [base |-> base, stamp |-> stamp, ext |-> ext]
\* the empty path
NoPath == RelPath(<<>>, 0, <<>>)

\* a nil *FileHashInfo
NoInfo == [Hash |-> <<>>, Size |-> 0, Date |-> 0, Path |-> NoPath, nil |-> TRUE]
FileHashInfo(hash, size, date, path) ==
    [Hash |-> hash, Size |-> size, Date |-> date, Path |-> path, nil |-> FALSE]

\* Indexer.GetPhotosByCounter: the bucket of the normalized counter, nil
\* (no photos) when the map has no such key
GetPhotosByCounter(idx, counterNumber) ==
    LET normalizedCounter == NormalizeCounterNumber(counterNumber)
    IN  IF normalizedCounter \in DOMAIN idx THEN idx[normalizedCounter] ELSE <<>>

\* the tier-2 loop of CheckDuplicate: the first photo within a second of
\* dateTaken that has the same hash
RECURSIVE FirstNear(_, _, _, _)
FirstNear(photos, k, fileHash, dateTaken) ==
    IF k > Len(photos) THEN NoInfo
    ELSE IF absTimeDiff(photos[k].Date, dateTaken) < Second /\ photos[k].Hash = fileHash
         THEN FileHashInfo(photos[k].Hash, photos[k].Size, photos[k].Date, photos[k].Path)
         ELSE FirstNear(photos, k + 1, fileHash, dateTaken)

\* a duplicate check without the lookup by hash
CheckDuplicateNoTier1(db, idx, fileHash, size, counterNumber, dateTaken) ==
    IF counterNumber # <<>> /\ counterNumber # Unknown
    THEN LET found == FirstNear(GetPhotosByCounter(idx, NormalizeCounterNumber(counterNumber)),
                                1, fileHash, dateTaken)
         IN  [info |-> found, reason |-> IF found.nil THEN "" ELSE "counter_and_date"]
    ELSE [info |-> NoInfo, reason |-> ""]

\* DuplicateCheck.CheckDuplicate: tier 1 by hash, tier 2 by counter number
\* and capture time; the result is the info (nil or not) and the reason
CheckDuplicate(db, idx, fileHash, size, counterNumber, dateTaken) ==
    IF fileHash \in DOMAIN db
    THEN [info |-> db[fileHash], reason |-> "hash"]
    ELSE IF counterNumber # <<>> /\ counterNumber # Unknown
    THEN LET found == FirstNear(GetPhotosByCounter(idx, NormalizeCounterNumber(counterNumber)),
                                1, fileHash, dateTaken)
         IN  [info |-> found, reason |-> IF found.nil THEN "" ELSE "counter_and_date"]
    ELSE [info |-> NoInfo, reason |-> ""]

\* an AddHash that files the entry under the path, not under the hash
AddHashUnderPath(db, fileHash, size, date, path) ==
    [h \in DOMAIN db \cup {path} |->
        IF h = path THEN FileHashInfo(fileHash, size, date, path) ELSE db[h]]

\* DuplicateCheck.AddHash
AddHash(db, fileHash, size, date, path) ==
    [h \in DOMAIN db \cup {fileHash} |->
        IF h = fileHash THEN FileHashInfo(fileHash, size, date, path) ELSE db[h]]

----------------------------------------------------------------------------
(* storage: Indexer *)

PhotoInfo(relPath, fullPath, date, size, hash, userComment) ==
    [Path |-> relPath, FullPath |-> fullPath, Date |-> date, Size |-> size,
     Hash |-> hash, UserComment |-> userComment]

\* Time.Before
Before(t1, t2) == t1 < t2

After(t1, t2) == t1 > t2

Swap(photos, i, j) == [photos EXCEPT ![i] = photos[j], ![j] = photos[i]]

\* the inner loop of AddPhoto's sort: j runs from its value to the end
RECURSIVE SortInner(_, _, _)
SortInner(photos, i, j) ==
    IF j > Len(photos) THEN photos
    ELSE SortInner(IF Before(photos[i].Date, photos[j].Date)
                   THEN Swap(photos, i, j) ELSE photos,
                   i, j + 1)

\* the outer loop of AddPhoto's sort (positions are 1-based here)
RECURSIVE SortOuter(_, _)
SortOuter(photos, i) ==
    IF i > Len(photos) - 1 THEN photos
    ELSE SortOuter(SortInner(photos, i, i + 1), i + 1)

\* the bucket left in the order of insertion
SortNothing(photos) == photos

\* lines 73-81 of AddPhoto: the bucket sorted, newest first
SortByDateDesc(photos) == SortOuter(photos, 1)

\* a path scan that finds nothing
NeverHasPath(photos, relPath) == FALSE

\* lines 54-59 of AddPhoto: some photo of the bucket has this path
HasPath(photos, relPath) == \E k \in 1..Len(photos) : photos[k].Path = relPath

\* The in-memory part of AddPhoto: the index afterwards and whether a record
\* was appended (when not, AddPhoto returns nil without saving).
AddPhotoMem(idx, counterNumber, relPath, fullPath, date, size, hash, userComment) ==
    LET normalizedCounter == NormalizeCounterNumber(counterNumber)
        bucket == IF normalizedCounter \in DOMAIN idx THEN idx[normalizedCounter] ELSE <<>>
    IN  IF HasPath(bucket, relPath)
        THEN [index |-> idx, appended |-> FALSE]
        ELSE LET photo == PhotoInfo(relPath, fullPath, date, size, hash, userComment)
                 sorted == SortByDateDesc(Append(bucket, photo))
             IN  [index |-> [c \in DOMAIN idx \cup {normalizedCounter} |->
                                IF c = normalizedCounter THEN sorted ELSE idx[c]],
                  appended |-> TRUE]

\* the JSON object saveIndex builds for one photo; userComment is left out
\* when empty
PhotoMap(photo) ==
    IF photo.UserComment # <<>>
    THEN [path |-> photo.Path, fullPath |-> photo.FullPath,
          date |-> FormatRFC3339(photo.Date), size |-> photo.Size,
          hash |-> photo.Hash, userComment |-> photo.UserComment]
    ELSE [path |-> photo.Path, fullPath |-> photo.FullPath,
          date |-> FormatRFC3339(photo.Date), size |-> photo.Size,
          hash |-> photo.Hash]

\* the document saveIndex marshals
IndexData(idx) ==
    [c \in DOMAIN idx |-> [k \in 1..Len(idx[c]) |-> PhotoMap(idx[c][k])]]

\* photo_index.json: missing, a document, or cut short by a failed write
NoFile == [state |-> "absent", doc |-> <<>>]
TornFile == [state |-> "torn", doc |-> <<>>]
JsonFile(doc) == [state |-> "json", doc |-> doc]

\* What os.WriteFile does in saveIndex: "ok" writes the document; "unwritten"
\* fails before the file is touched; "torn" fails after it was truncated.
PersistOutcomes == {"ok", "unwritten", "torn"}

saveIndex(idx, file, outcome) ==
    IF outcome = "ok" THEN JsonFile(IndexData(idx))
    ELSE IF outcome = "torn" THEN TornFile
    ELSE file

\* an AddPhoto that takes the record back when the index file is not written
AddPhotoRollsBack(idx, file, counterNumber, relPath, fullPath, date, size, hash, userComment, outcome) ==
    LET mem == AddPhotoMem(idx, counterNumber, relPath, fullPath, date, size, hash, userComment)
    IN  IF ~mem.appended
        THEN [index |-> idx, disk |-> file, err |-> FALSE]
        ELSE IF outcome # "ok"
        THEN [index |-> idx, disk |-> saveIndex(mem.index, file, outcome), err |-> TRUE]
        ELSE [index |-> mem.index, disk |-> saveIndex(mem.index, file, outcome),
              err |-> FALSE]

\* loadIndex, called by NewIndexer on an empty index: a missing or
\* unparsable file leaves the index empty; otherwise every record of the
\* document is converted, its date parsed with time.RFC3339 (time.Now() when
\* that fails) and a missing userComment read as "".
loadIndex(file, now) ==
    IF file.state # "json" THEN <<>>
    ELSE [c \in DOMAIN file.doc |->
            [k \in DOMAIN file.doc[c] |->
                LET photoData == file.doc[c][k]
                IN  PhotoInfo(photoData.path, photoData.fullPath,
                              ParseDateTaken(photoData.date, now),
                              photoData.size, photoData.hash,
                              IF "userComment" \in DOMAIN photoData
                              THEN photoData.userComment ELSE EmptyText)]]

\* an AddPhoto that returns nil after saveIndex, whatever saveIndex returned
AddPhotoDropsError(idx, file, counterNumber, relPath, fullPath, date, size, hash, userComment, outcome) ==
    LET mem == AddPhotoMem(idx, counterNumber, relPath, fullPath, date, size, hash, userComment)
    IN  IF ~mem.appended
        THEN [index |-> idx, disk |-> file, err |-> FALSE]
        ELSE [index |-> mem.index, disk |-> saveIndex(mem.index, file, outcome),
              err |-> FALSE]

\* AddPhoto: the index, the file, and the error it returns (if any)
AddPhoto(idx, file, counterNumber, relPath, fullPath, date, size, hash, userComment, outcome) ==
    LET mem == AddPhotoMem(idx, counterNumber, relPath, fullPath, date, size, hash, userComment)
    IN  IF ~mem.appended
        THEN [index |-> idx, disk |-> file, err |-> FALSE]
        ELSE [index |-> mem.index, disk |-> saveIndex(mem.index, file, outcome),
              err |-> outcome # "ok"]

\* Indexer.GetAllCounters (the order of a map's keys is not kept)
GetAllCounters(idx) == DOMAIN idx

----------------------------------------------------------------------------
(* storage: FileManager *)

\* sha256 of the payload: distinct payloads get distinct hashes, and the
\* payload itself stands for its digest
CalculateHash(data) == <<"sha256", data>>

BaseDir == <<"meter">>

\* filepath.Join(h.fileManager.BaseDir(), relPath)
FullPath(relPath) == <<BaseDir, relPath>>

\* filepath.Ext: from the last dot of the name on (names hold no separator)
Ext(filename) ==
    LET dots == {i \in 1..Len(filename) : filename[i] = 46}
    IN  IF dots = {} THEN <<>>
        ELSE SubSeq(filename, CHOOSE i \in dots : \A k \in dots : k <= i, Len(filename))

DotJpg == <<46, 106, 112, 103>>

\* What the operating system does to SaveFile: "ok"; "dirfail" (lines
\* 192-211: the directory cannot be made or written); "createfail" (os.Create
\* fails); "writefail" (file.Write fails, the file created stays behind).
SaveOutcomes == {"ok", "dirfail", "createfail", "writefail"}

\* SaveFile.  The result: err (an error came back), panic (the slice
\* expression filename[:len(filename)-len(ext)] had a negative bound), the
\* relative path, the file store and the clock reading afterwards.
SaveFile(store, stamp, filename, data, outcome) ==
    LET ext == IF Ext(filename) = <<>> THEN DotJpg ELSE Ext(filename)
        cut == Len(filename) - Len(ext)
        relPath == RelPath(SubSeq(filename, 1, cut), stamp + 1, ext)
        put(whole) == [q \in DOMAIN store \cup {relPath} |->
                          IF q = relPath
                          THEN [hash |-> CalculateHash(data), whole |-> whole]
                          ELSE store[q]]
    IN  IF outcome = "dirfail"
        THEN [err |-> TRUE, panic |-> FALSE, relPath |-> NoPath, files |-> store, nanos |-> stamp]
        ELSE IF cut < 0
        THEN [err |-> FALSE, panic |-> TRUE, relPath |-> NoPath, files |-> store, nanos |-> stamp]
        ELSE IF outcome = "createfail"
        THEN [err |-> TRUE, panic |-> FALSE, relPath |-> NoPath, files |-> store, nanos |-> stamp + 1]
        ELSE IF outcome = "writefail"
        THEN [err |-> TRUE, panic |-> FALSE, relPath |-> NoPath, files |-> put(FALSE), nanos |-> stamp + 1]
        ELSE [err |-> FALSE, panic |-> FALSE, relPath |-> relPath, files |-> put(TRUE), nanos |-> stamp + 1]

----------------------------------------------------------------------------
(* handlers: the requests.  Each action is one request handled from start *)
(* to end; resp records what the client is sent.                          *)

\* c.Query("token") of a request without a token
NoToken == ""

NoBody == [none |-> TRUE]
Resp(op, token, code, error, body) ==
    [op |-> op, token |-> token, code |-> code, error |-> error, body |-> body]

\* The goroutines: two requests are handled at a time, and cleanup runs
\* beside them.
Workers == {"w1", "w2"}
Sweeper == "cleanup"
Goroutines == Workers \cup {Sweeper}
NoGoroutine == "none"

\* s.mu, dc.mu, idx.mu
SessionsMu == "s.mu"
HashMu == "dc.mu"
IndexMu == "idx.mu"
Mutexes == {SessionsMu, HashMu, IndexMu}

\* a sync.RWMutex: writer holds rw.w (it has called Lock and turned new
\* readers away), readers hold the read lock, waiting are the readers
\* that wait for the writer to unlock
Unlocked == [writer |-> NoGoroutine, readers |-> {}, waiting |-> {}]

NoLocal == [none |-> TRUE]

\* everything but the session map and the response
ingestVars == <<hashDB, index, disk, files, nanos>>
timeVars == <<clock, tickPending>>

\* StartHandler: uuid.New() is a token no earlier call returned
StartHandler(token) ==
    /\ token \notin issued
    /\ issued' = issued \cup {token}
    /\ sessions' = StoreCreate(sessions, token, clock)
    /\ resp' = Resp("start", token, 200, "", NoBody)
    /\ UNCHANGED <<ingestVars, timeVars, concVars>>

\* the updater InitHandler passes to Update
InitUpdater(session, total, now) ==
    [session EXCEPT !.Total = total, !.Status = StatusReady, !.StartTime = now]

\* InitHandler; bodyOK: ShouldBindJSON accepted the body
InitHandler(token, bodyOK, total) ==
    LET updater == [t \in DOMAIN sessions |-> InitUpdater(sessions[t], total, clock)]
    IN  /\ UNCHANGED <<issued, ingestVars, timeVars, concVars>>
        /\ IF token = NoToken
           THEN /\ resp' = Resp("init", token, 400, "token is required", NoBody)
                /\ UNCHANGED sessions
           ELSE IF ~bodyOK
           THEN /\ resp' = Resp("init", token, 400, "bad request body", NoBody)
                /\ UNCHANGED sessions
           ELSE /\ sessions' = StoreUpdate(sessions, token, updater, clock)
                /\ resp' = IF token \in DOMAIN sessions
                           THEN Resp("init", token, 200, "", NoBody)
                           ELSE Resp("init", token, 404, "session not found", NoBody)

\* the updater of SyncHandler's duplicate branch (lines 148-152)
DuplicateUpdater(session, originalName) ==
    [session EXCEPT !.Skipped = @ + 1, !.Status = StatusSyncing,
                    !.CurrentFile = originalName]

\* the saved branch's updater without its test of the counts
SavedUpdaterCompletes(session, originalName) ==
    [session EXCEPT !.Uploaded = @ + 1, !.Status = StatusCompleted,
                    !.CurrentFile = originalName]

\* the updater of SyncHandler's saved branch (lines 199-208)
SavedUpdater(session, originalName) ==
    LET s == [session EXCEPT !.Uploaded = @ + 1, !.Status = StatusSyncing,
                             !.CurrentFile = originalName]
    IN  IF s.Uploaded + s.Skipped >= s.Total
        THEN [s EXCEPT !.Status = StatusCompleted]
        ELSE s

\* the save error is recorded and the session is marked failed
ErrorUpdaterSetsStatus(session, err) ==
    [session EXCEPT !.Errors = Append(@, err), !.Status = StatusError]

\* the updater of SyncHandler's save-error branch (lines 180-182)
ErrorUpdater(session, err) == [session EXCEPT !.Errors = Append(@, err)]

\* lines 166-172 of SyncHandler: the counter number the photo is indexed under
EffectiveCounter(counterNumber, data) ==
    IF counterNumber # <<>> THEN counterNumber
    ELSE LET found == Runes(extractCounterNumberFromEXIF(data).text)
         IN  IF found = <<>> THEN Unknown ELSE found

\* an error of the index stops the ingest
IndexErrorIsFatal(err) == err

\* lines 190-193 of SyncHandler: whether an error of AddPhoto stops the
\* ingest.  It never does: the error is printed as a warning.
IndexErrorStopsIngest(err) == FALSE

SyncBody(session, filepath, isDuplicate, reason) ==
    [uploaded |-> session.Uploaded, total |-> session.Total, filepath |-> filepath,
     isDuplicate |-> isDuplicate, reason |-> reason]

\* SyncHandler.  hasPhoto: the form holds a "photo" file; readOK: it could be
\* opened and read; saveOutcome, persistOutcome: what the operating system
\* does to SaveFile and to saveIndex.
SyncHandler(token, hasPhoto, readOK, data, counterNumber, originalName, dateTakenStr, saveOutcome, persistOutcome) ==
    LET got == StoreGet(sessions, token)
        dateTaken == ParseDateTaken(dateTakenStr, clock)
        fileHash == CalculateHash(data)
        size == Len(data)
        dup == CheckDuplicate(hashDB, index, fileHash, size, counterNumber, dateTaken)
        dupUpdater == [t \in DOMAIN sessions |-> DuplicateUpdater(sessions[t], originalName)]
        scan == extractUserCommentFromEXIF(data)
        counter == EffectiveCounter(counterNumber, data)
        saved == SaveFile(files, nanos, originalName, data, saveOutcome)
        errUpdater == [t \in DOMAIN sessions |-> ErrorUpdater(sessions[t], saveOutcome)]
        added == AddPhoto(index, disk, counter, saved.relPath, FullPath(saved.relPath),
                          dateTaken, size, fileHash, scan.text, persistOutcome)
        savedUpdater == [t \in DOMAIN sessions |-> SavedUpdater(sessions[t], originalName)]
    IN  /\ UNCHANGED <<issued, timeVars, concVars>>
        /\ IF token = NoToken
           THEN /\ resp' = Resp("sync", token, 400, "token is required", NoBody)
                /\ UNCHANGED <<sessions, ingestVars>>
           ELSE IF ~got.exists
           THEN /\ resp' = Resp("sync", token, 404, "session not found", NoBody)
                /\ UNCHANGED <<sessions, ingestVars>>
           ELSE IF ~hasPhoto
           THEN /\ resp' = Resp("sync", token, 400, "photo file is required", NoBody)
                /\ UNCHANGED <<sessions, ingestVars>>
           ELSE IF ~readOK
           THEN /\ resp' = Resp("sync", token, 500, "failed to read file", NoBody)
                /\ UNCHANGED <<sessions, ingestVars>>
           ELSE IF ~dup.info.nil
           THEN /\ got.session.Skipped < MaxSkipped
                /\ sessions' = StoreUpdate(sessions, token, dupUpdater, clock)
                /\ resp' = Resp("sync", token, 200, "",
                                SyncBody(sessions'[token], dup.info.Path, TRUE, dup.reason))
                /\ UNCHANGED ingestVars
           ELSE IF scan.panic
           THEN \* gin's Recovery middleware answers a panic
                /\ resp' = Resp("sync", token, 500, "panic", NoBody)
                /\ UNCHANGED <<sessions, ingestVars>>
           ELSE IF saved.panic
           THEN /\ resp' = Resp("sync", token, 500, "panic", NoBody)
                /\ UNCHANGED <<sessions, ingestVars>>
           ELSE IF saved.err
           THEN /\ Len(got.session.Errors) < MaxErrors
                /\ sessions' = StoreUpdate(sessions, token, errUpdater, clock)
                /\ files' = saved.files
                /\ nanos' = saved.nanos
                /\ resp' = Resp("sync", token, 500, "failed to save file", NoBody)
                /\ UNCHANGED <<hashDB, index, disk>>
           ELSE IF IndexErrorStopsIngest(added.err)
           THEN /\ files' = saved.files
                /\ nanos' = saved.nanos
                /\ index' = added.index
                /\ disk' = added.disk
                /\ resp' = Resp("sync", token, 500, "failed to index file", NoBody)
                /\ UNCHANGED <<sessions, hashDB>>
           ELSE /\ files' = saved.files
                /\ nanos' = saved.nanos
                /\ index' = added.index
                /\ disk' = added.disk
                /\ hashDB' = AddHash(hashDB, fileHash, size, dateTaken, saved.relPath)
                /\ sessions' = StoreUpdate(sessions, token, savedUpdater, clock)
                /\ resp' = Resp("sync", token, 200, "",
                                SyncBody(sessions'[token], saved.relPath, FALSE, ""))

StatusBody(session) ==
    [status |-> session.Status, total |-> session.Total, uploaded |-> session.Uploaded,
     skipped |-> session.Skipped, progress |-> GetProgress(session),
     currentFile |-> session.CurrentFile, startTime |-> session.StartTime]

StatusHandler(token) ==
    LET got == StoreGet(sessions, token)
    IN  /\ UNCHANGED <<sessions, issued, ingestVars, timeVars, concVars>>
        /\ resp' = IF token = NoToken
                   THEN Resp("status", token, 400, "token is required", NoBody)
                   ELSE IF ~got.exists
                   THEN Resp("status", token, 404, "session not found", NoBody)
                   ELSE Resp("status", token, 200, "", StatusBody(got.session))

IndexHandler(counterNumber) ==
    /\ UNCHANGED <<sessions, issued, ingestVars, timeVars, concVars>>
    /\ resp' = IF counterNumber = <<>>
               THEN Resp("index", NoToken, 200, "",
                         [all |-> [c \in GetAllCounters(index) |-> GetPhotosByCounter(index, c)]])
               ELSE LET photos == GetPhotosByCounter(index, counterNumber)
                    IN  Resp("index", NoToken, 200, "",
                             [counterNumber |-> counterNumber, photos |-> photos,
                              total |-> Len(photos)])

DeleteSessionHandler(token) ==
    /\ UNCHANGED <<issued, ingestVars, timeVars, concVars>>
    /\ IF token = NoToken
       THEN /\ resp' = Resp("delete", token, 400, "token is required", NoBody)
            /\ UNCHANGED sessions
       ELSE /\ sessions' = StoreDelete(sessions, token)
            /\ resp' = Resp("delete", token, 200, "", NoBody)

----------------------------------------------------------------------------
(* Time and the expiry sweep *)

\* the minutes at which the model looks at the system
Instants == (0..TimeSlack) \cup (Hour..(Hour + TimeSlack + 1))

\* Time passes to a later instant; at least one period of the ticker has
\* gone by, so a tick waits in ticker.C (whose buffer holds one tick).
AdvanceTime(later) ==
    /\ later \in Instants
    /\ later > clock
    /\ clock' = later
    /\ tickPending' = TRUE
    /\ UNCHANGED <<sessions, issued, ingestVars, resp, concVars>>

\* one turn of cleanup's loop: the tick is received, the map is swept
cleanup ==
    /\ tickPending
    /\ tickPending' = FALSE
    /\ sessions' = StoreSweep(sessions, clock)
    /\ UNCHANGED <<issued, ingestVars, clock, resp, concVars>>

----------------------------------------------------------------------------
(* Inputs *)

Tokens == {"t1", "t2"}

\* "a.jpg", and a form without originalName
NameJpg == <<97, 46, 106, 112, 103>>
NoName == <<>>

\* FF D8, an APP1 segment of length 19: "Exif\0\0", "ABC1234567", one 0 byte
JpegWithComment ==
    <<255, 216, 255, 225, 0, 19, 69, 120, 105, 102, 0, 0,
      65, 66, 67, 49, 50, 51, 52, 53, 54, 55, 0>>
\* FF D8 FF D9: a JPEG without segments
JpegBare == <<255, 216, 255, 217>>
\* not a JPEG
NotJpeg == <<1, 2, 3>>
\* FF D8, an APP1 segment of length 2 with four more bytes behind it
JpegShortApp1 == <<255, 216, 255, 225, 0, 2, 0, 0, 0, 0>>

Payloads == {JpegWithComment, JpegBare, NotJpeg, JpegShortApp1}

\* "AB-1" and "ab1": two spellings of one bucket; "zz9": another bucket
CounterAB1 == <<65, 66, 45, 49>>
Counterab1 == <<97, 98, 49>>
CounterZZ9 == <<122, 122, 57>>

----------------------------------------------------------------------------
(* The state after construction: no session, an empty hash table, and no   *)
(* index file to load.                                                     *)

Init ==
    /\ sessions = <<>>
    /\ issued = {}
    /\ hashDB = <<>>
    /\ index = <<>>
    /\ disk = NoFile
    /\ files = <<>>
    /\ nanos = 0
    /\ clock = 0
    /\ tickPending = FALSE
    /\ resp = Resp("none", NoToken, 0, "", NoBody)
    /\ pc = [g \in Goroutines |-> "idle"]
    /\ local = [g \in Goroutines |-> NoLocal]
    /\ locks = [m \in Mutexes |-> Unlocked]

\* a sync request that fails before the payload is looked at: the token is
\* missing or unknown, the photo is missing (hasPhoto false) or unreadable
SyncRejected(token, hasPhoto) ==
    SyncHandler(token, hasPhoto, FALSE, NotJpeg, <<>>, NameJpg, NoDateStr, "ok", "ok")

----------------------------------------------------------------------------
(* Spec: one client session from start to expiry, every kind of request,   *)
(* the clock and the sweep.  "t2" is a token no session ever has.          *)

Next ==
    \/ StartHandler("t1")
    \/ \E token \in Tokens \cup {NoToken}, total \in {0, MaxTotal} :
          InitHandler(token, TRUE, total)
    \/ \E token \in Tokens : InitHandler(token, FALSE, 0)
    \/ \E token \in Tokens \cup {NoToken}, hasPhoto \in BOOLEAN :
          SyncRejected(token, hasPhoto)
    \/ \E token \in Tokens, saveOutcome \in {"ok", "dirfail"} :
          SyncHandler(token, TRUE, TRUE, NotJpeg, <<>>, NameJpg, DateStr(0),
                      saveOutcome, "ok")
    \/ \E token \in Tokens \cup {NoToken} : StatusHandler(token)
    \/ \E token \in Tokens \cup {NoToken} : DeleteSessionHandler(token)
    \/ \E later \in Instants : AdvanceTime(later)
    \/ cleanup

Spec == Init /\ [][Next]_vars

\* The ticker keeps ticking and the cleanup goroutine is scheduled: a tick
\* that waits is received.
FairSpec == Spec /\ WF_vars(cleanup)

----------------------------------------------------------------------------
(* FrameSpec: two client sessions side by side, three photos.              *)

SavablePayloads == {JpegWithComment, JpegBare, NotJpeg}

FrameNext ==
    \/ \E token \in Tokens : StartHandler(token)
    \/ \E token \in Tokens, total \in {1, MaxTotal} : InitHandler(token, TRUE, total)
    \/ \E token \in Tokens, data \in SavablePayloads :
          SyncHandler(token, TRUE, TRUE, data, <<>>, NameJpg, DateStr(0), "ok", "ok")
    \/ \E token \in Tokens : DeleteSessionHandler(token)

FrameSpec == Init /\ [][FrameNext]_vars

----------------------------------------------------------------------------
(* IngestSpec: the ingest pipeline under one session: photos with and      *)
(* without a counter number, near and far capture times, and every         *)
(* outcome of the two disk writes.                                         *)

IngestPayloads == {JpegWithComment, NotJpeg}
\* the form fields sent with a photo: none, or a counter number and a
\* capture time
IngestForms ==
    {[counterNumber |-> <<>>, dateTakenStr |-> NoDateStr],
     [counterNumber |-> CounterAB1, dateTakenStr |-> DateStr(2 * Second)]}

IngestNext ==
    \/ StartHandler("t1")
    \/ \E hasPhoto \in BOOLEAN : SyncRejected("t1", hasPhoto)
    \/ \E data \in IngestPayloads, form \in IngestForms,
          persistOutcome \in PersistOutcomes :
          SyncHandler("t1", TRUE, TRUE, data, form.counterNumber, NameJpg,
                      form.dateTakenStr, "ok", persistOutcome)
    \/ \E saveOutcome \in SaveOutcomes \ {"ok"} :
          SyncHandler("t1", TRUE, TRUE, NotJpeg, Counterab1, NameJpg, DateStr(1),
                      saveOutcome, "ok")
    \/ SyncHandler("t1", TRUE, TRUE, JpegShortApp1, <<>>, NameJpg, NoDateStr, "ok", "ok")
    \/ SyncHandler("t1", TRUE, TRUE, NotJpeg, <<>>, NoName, NoDateStr, "ok", "ok")

IngestSpec == Init /\ [][IngestNext]_vars

----------------------------------------------------------------------------
(* IndexSpec: the Indexer on its own.  AddPhoto is called with counter    *)
(* numbers of which two normalize to the same key, with paths that repeat *)
(* and with capture times in any order; the index file is written or torn. *)

\* a call of Indexer.AddPhoto
IndexerAddPhoto(counterNumber, relPath, date, outcome) ==
    LET held == UNION {{<<c, k>> : k \in 1..Len(index[c])} : c \in DOMAIN index}
        added == AddPhoto(index, disk, counterNumber, relPath, FullPath(relPath), date,
                          Len(NotJpeg), CalculateHash(NotJpeg), EmptyText, outcome)
    IN  /\ Cardinality(held) < MaxPhotos
        /\ index' = added.index
        /\ disk' = added.disk
        /\ UNCHANGED <<sessions, issued, hashDB, files, nanos, timeVars, resp, concVars>>

IndexCounters == {CounterAB1, Counterab1, CounterZZ9}
IndexPaths == {RelPath(<<97>>, stamp, DotJpg) : stamp \in 1..3}
IndexDates == {0, 1, 1 + Second}

IndexNext ==
    \/ \E counterNumber \in IndexCounters, relPath \in IndexPaths,
          date \in IndexDates, outcome \in {"ok", "torn"} :
          IndexerAddPhoto(counterNumber, relPath, date, outcome)
    \/ \E counterNumber \in IndexCounters : IndexHandler(counterNumber)

IndexSpec == Init /\ [][IndexNext]_vars

----------------------------------------------------------------------------
(* AppendSpec: AddPhoto alone, with every outcome of the write of the      *)
(* index file: written, not written with the file left as it was, or torn. *)

AppendNext ==
    \E counterNumber \in IndexCounters, relPath \in IndexPaths,
       date \in IndexDates, outcome \in PersistOutcomes :
       IndexerAddPhoto(counterNumber, relPath, date, outcome)

AppendSpec == Init /\ [][AppendNext]_vars

----------------------------------------------------------------------------
(* ScanSpec: the first photo a fresh server is sent, without a counter     *)
(* number in the form, so that the scanner decides its bucket and its      *)
(* comment.  The buffers are Exif segments with a run of letters and       *)
(* digits at every place of the payload, and short buffers with every      *)
(* small length field in front of every short tail.                        *)

Zeros(n) == [i \in 1..n |-> 0]

\* "ABC1234567"; ten letters; "AB123456"; 0xD0 and "ABC123456"
RunABC1234567 == <<65, 66, 67, 49, 50, 51, 52, 53, 54, 55>>
RunLetters == <<65, 66, 67, 68, 69, 70, 71, 72, 73, 74>>
RunAB123456 == <<65, 66, 49, 50, 51, 52, 53, 54>>
RunCyrillicFirst == <<208, 65, 66, 67, 49, 50, 51, 52, 53, 54>>
ScanRuns == {RunABC1234567, RunLetters, RunAB123456, RunCyrillicFirst}

\* FF D8, one APP1 segment: the length, "Exif\0\0", pad zero bytes, the
\* run, trail zero bytes
ExifJpeg(pad, run, trail) ==
    <<255, 216, 255, 225, 0, 2 + Len(ExifHeader) + pad + Len(run) + trail>>
       \o ExifHeader \o Zeros(pad) \o run \o Zeros(trail)

ExifBuffers ==
    {ExifJpeg(pad, run, trail) : pad \in 0..MaxPad, run \in ScanRuns, trail \in 0..MaxTrail}

\* the first k bytes of "Exif\0\0" and zero bytes behind it
ExifTail(k) == SubSeq(ExifHeader \o Zeros(k), 1, k)

\* FF D8 FF, a marker (APP1, APP0 or the fill byte FF), a length field and
\* a tail of k bytes
ShortBuffers ==
    {<<255, 216, 255, marker, 0, length>> \o tail :
        marker \in {225, 224, 255}, length \in 0..MaxLength,
        tail \in UNION {{Zeros(k), ExifTail(k)} : k \in 0..MaxTail}}

\* buffers that end before the length field, and one that is no JPEG
CutBuffers == {SubSeq(<<255, 216, 255, 225, 0>>, 1, n) : n \in 1..5} \cup {NotJpeg}

ScanBuffers == ExifBuffers \cup ShortBuffers \cup CutBuffers

\* a photo sent to a server that holds no file yet
ScanUpload(data) ==
    /\ files = <<>>
    /\ SyncHandler("t1", TRUE, TRUE, data, <<>>, NameJpg, NoDateStr, "ok", "ok")

ScanNext ==
    \/ StartHandler("t1")
    \/ \E data \in ScanBuffers : ScanUpload(data)

ScanSpec == Init /\ [][ScanNext]_vars

----------------------------------------------------------------------------
(* LockSpec: the requests as the goroutines run them, one call of a lock   *)
(* at a step.  Two workers each handle one request after another for    *)
(* session "t1": "w1" an ingest, a status or a list-index request, "w2" an *)
(* ingest, an init or a delete request; cleanup sweeps at the tick.  The   *)
(* photo is sent as long as its hash is not stored.                        *)
(*                                                                         *)
(* A read section is two steps: RLock (the reader is admitted or queued),  *)
(* then the reads and RUnlock.  A write section is two steps: the first    *)
(* half of Lock (rw.w is taken, new readers are turned away), then, once   *)
(* the readers have left, the writes and Unlock.                           *)

\* RLock admits a reader unless a writer has called Lock
ReaderAdmittedBesideWriter(mu) == TRUE

\* sync.RWMutex.RLock: readerCount is negative from the moment a writer
\* holds rw.w, and the reader then waits on readerSem
ReaderAdmitted(mu) == mu.writer = NoGoroutine

RLock(lks, m, g) ==
    IF ReaderAdmitted(lks[m])
    THEN [lks EXCEPT ![m].readers = @ \cup {g}]
    ELSE [lks EXCEPT ![m].waiting = @ \cup {g}]

RUnlock(lks, m, g) == [lks EXCEPT ![m].readers = @ \ {g}]

\* Lock, first half: rw.w.Lock() and the announcement to the readers
LockAnnounce(lks, m, g) == [lks EXCEPT ![m].writer = g]

\* Lock, second half: the writer goes on when the readers have left
WriterEntered(lks, m, g) == lks[m].writer = g /\ lks[m].readers = {}

\* Unlock: the waiting readers are admitted, rw.w is released
Unlock(lks, m) ==
    [lks EXCEPT ![m] = [writer |-> NoGoroutine, readers |-> @.waiting, waiting |-> {}]]

HoldsRead(m, g) == g \in locks[m].readers

\* the mutexes g holds or has called and waits for
Held(g) ==
    {m \in Mutexes : g \in locks[m].readers \/ locks[m].writer = g}
Wanted(g) == {m \in Mutexes : g \in locks[m].waiting}

\* the request every client sends: the session token, the total, the photo
ConcToken == "t1"
ConcCounter == Counterab1
ConcPhoto == NotJpeg

\* the call of Lock a goroutine stands before, and where it is after rw.w
\* is taken
LockCalls ==
    [init_lock |-> SessionsMu, delete_lock |-> SessionsMu, cleanup_lock |-> SessionsMu,
     sync_dup_lock |-> SessionsMu, sync_add_lock |-> IndexMu,
     sync_hash_lock |-> HashMu, sync_update_lock |-> SessionsMu]
AfterLock ==
    [init_lock |-> "init_update", delete_lock |-> "delete_do",
     cleanup_lock |-> "cleanup_do", sync_dup_lock |-> "sync_dup",
     sync_add_lock |-> "sync_add", sync_hash_lock |-> "sync_hash",
     sync_update_lock |-> "sync_update"]

Goto(g, label) == pc' = [pc EXCEPT ![g] = label]
Finish(g) ==
    /\ pc' = [pc EXCEPT ![g] = "idle"]
    /\ local' = [local EXCEPT ![g] = NoLocal]

\* a *Session a goroutine holds: the session it points to is the one in
\* the map until the map drops it; from then on it is the session as it
\* was when it was dropped (kept in `dropped`).  `got` is the session as
\* it was when Get returned the pointer.
InMap == [none |-> TRUE]
Deref(loc, store) == IF loc.dropped = InMap THEN store[ConcToken] ELSE loc.dropped

\* the locals after the map went from store to after: every pointer to
\* a session that is no longer in the map keeps the session
Orphan(loc, store, after) ==
    [g \in DOMAIN loc |->
        IF /\ "dropped" \in DOMAIN loc[g]
           /\ loc[g].dropped = InMap
           /\ ConcToken \in DOMAIN store
           /\ ConcToken \notin DOMAIN after
        THEN [loc[g] EXCEPT !.dropped = store[ConcToken]]
        ELSE loc[g]]

\* the first half of any Lock call
TakeWriterLock(g) ==
    /\ pc[g] \in DOMAIN LockCalls
    /\ locks[LockCalls[pc[g]]].writer = NoGoroutine
    /\ locks' = LockAnnounce(locks, LockCalls[pc[g]], g)
    /\ Goto(g, AfterLock[pc[g]])
    /\ UNCHANGED <<sessions, issued, ingestVars, timeVars, resp, local>>

\* StartHandler: Create runs when s.mu is free
LockStart ==
    /\ locks[SessionsMu] = Unlocked
    /\ StartHandler(ConcToken)

\* InitHandler: the body is bound, Update is called
InitBegin(g) ==
    /\ pc[g] = "idle"
    /\ Goto(g, "init_lock")
    /\ UNCHANGED <<sessions, issued, ingestVars, timeVars, resp, local, locks>>

InitUpdate(g) ==
    LET updater == [t \in DOMAIN sessions |-> InitUpdater(sessions[t], MaxTotal, clock)]
    IN  /\ pc[g] = "init_update"
        /\ WriterEntered(locks, SessionsMu, g)
        /\ sessions' = StoreUpdate(sessions, ConcToken, updater, clock)
        /\ locks' = Unlock(locks, SessionsMu)
        /\ resp' = IF ConcToken \in DOMAIN sessions
                   THEN Resp("init", ConcToken, 200, "", NoBody)
                   ELSE Resp("init", ConcToken, 404, "session not found", NoBody)
        /\ Finish(g)
        /\ UNCHANGED <<issued, ingestVars, timeVars>>

\* StatusHandler: Get is called
StatusBegin(g) ==
    /\ pc[g] = "idle"
    /\ locks' = RLock(locks, SessionsMu, g)
    /\ Goto(g, "status_get")
    /\ UNCHANGED <<sessions, issued, ingestVars, timeVars, resp, local>>

\* Get looks the token up and unlocks
StatusGet(g) ==
    /\ pc[g] = "status_get"
    /\ HoldsRead(SessionsMu, g)
    /\ locks' = RUnlock(locks, SessionsMu, g)
    /\ IF ConcToken \in DOMAIN sessions
       THEN /\ Goto(g, "status_read")
            /\ local' = [local EXCEPT ![g] =
                            [dropped |-> InMap, got |-> sessions[ConcToken],
                             status |-> StatusWaiting]]
            /\ UNCHANGED resp
       ELSE /\ Finish(g)
            /\ resp' = Resp("status", ConcToken, 404, "session not found", NoBody)
    /\ UNCHANGED <<sessions, issued, ingestVars, timeVars>>

\* session.Status, the first field of the answer, is read through the
\* pointer, without a lock
StatusRead(g) ==
    /\ pc[g] = "status_read"
    /\ local' = [local EXCEPT ![g].status = Deref(local[g], sessions).Status]
    /\ Goto(g, "status_respond")
    /\ UNCHANGED <<sessions, issued, ingestVars, timeVars, resp, locks>>

\* the other fields are read through the pointer and the answer is sent
StatusRespond(g) ==
    /\ pc[g] = "status_respond"
    /\ resp' = Resp("status", ConcToken, 200, "",
                    [StatusBody(Deref(local[g], sessions)) EXCEPT !.status = local[g].status])
    /\ Finish(g)
    /\ UNCHANGED <<sessions, issued, ingestVars, timeVars, locks>>

\* DeleteSessionHandler: Delete is called
DeleteBegin(g) ==
    /\ pc[g] = "idle"
    /\ Goto(g, "delete_lock")
    /\ UNCHANGED <<sessions, issued, ingestVars, timeVars, resp, local, locks>>

DeleteDo(g) ==
    /\ pc[g] = "delete_do"
    /\ WriterEntered(locks, SessionsMu, g)
    /\ sessions' = StoreDelete(sessions, ConcToken)
    /\ locks' = Unlock(locks, SessionsMu)
    /\ resp' = Resp("delete", ConcToken, 200, "", NoBody)
    /\ pc' = [pc EXCEPT ![g] = "idle"]
    /\ local' = [Orphan(local, sessions, sessions') EXCEPT ![g] = NoLocal]
    /\ UNCHANGED <<issued, ingestVars, timeVars>>

\* cleanup receives a tick and calls Lock
SweepBegin ==
    /\ pc[Sweeper] = "idle"
    /\ tickPending
    /\ tickPending' = FALSE
    /\ Goto(Sweeper, "cleanup_lock")
    /\ UNCHANGED <<sessions, issued, ingestVars, clock, resp, local, locks>>

\* the sweep of the map, and Unlock
SweepDo ==
    /\ pc[Sweeper] = "cleanup_do"
    /\ WriterEntered(locks, SessionsMu, Sweeper)
    /\ sessions' = StoreSweep(sessions, clock)
    /\ locks' = Unlock(locks, SessionsMu)
    /\ pc' = [pc EXCEPT ![Sweeper] = "idle"]
    /\ local' = Orphan(local, sessions, sessions')
    /\ UNCHANGED <<issued, ingestVars, timeVars, resp>>

\* IndexHandler with a counter number: GetPhotosByCounter is called
ListBegin(g) ==
    /\ pc[g] = "idle"
    /\ locks' = RLock(locks, IndexMu, g)
    /\ Goto(g, "list_get")
    /\ UNCHANGED <<sessions, issued, ingestVars, timeVars, resp, local>>

\* cap() of a bucket of n photos that grew by append from an empty one:
\* append doubles the array when it is full
RECURSIVE Capacity(_)
Capacity(n) == IF n <= 1 THEN n ELSE 2 * Capacity((n + 1) \div 2)

\* The slices the goroutines hold after a bucket went from `before` to
\* `after` by an append.  GetPhotosByCounter returns the slice of the map,
\* not a copy: when the array had room the new photo was written into it
\* and the sort ran over it, so that a slice of that array shows the first
\* elements of `after`; when the array was full the bucket moved to a new
\* array and the slice keeps its elements.
Realias(loc, key, before, after) ==
    [g \in DOMAIN loc |->
        IF /\ "photos" \in DOMAIN loc[g]
           /\ loc[g].key = key
           /\ Len(loc[g].photos) >= 1
           /\ Len(after) > Len(before)
           /\ Len(after) <= Capacity(Len(before))
           /\ Capacity(Len(loc[g].photos)) = Capacity(Len(before))
        THEN [loc[g] EXCEPT !.photos = SubSeq(after, 1, Len(loc[g].photos))]
        ELSE loc[g]]

\* GetPhotosByCounter returns the bucket and unlocks; `received` is the
\* slice as it was returned
ListGet(g) ==
    /\ pc[g] = "list_get"
    /\ HoldsRead(IndexMu, g)
    /\ locks' = RUnlock(locks, IndexMu, g)
    /\ local' = [local EXCEPT ![g] =
                    [key |-> NormalizeCounterNumber(ConcCounter),
                     received |-> GetPhotosByCounter(index, ConcCounter),
                     photos |-> GetPhotosByCounter(index, ConcCounter)]]
    /\ Goto(g, "list_respond")
    /\ UNCHANGED <<sessions, issued, ingestVars, timeVars, resp>>

ListRespond(g) ==
    /\ pc[g] = "list_respond"
    /\ resp' = Resp("index", NoToken, 200, "",
                    [counterNumber |-> ConcCounter, photos |-> local[g].photos,
                     total |-> Len(local[g].photos)])
    /\ Finish(g)
    /\ UNCHANGED <<sessions, issued, ingestVars, timeVars, locks>>

\* SyncHandler: Get is called
SyncBegin(g) ==
    /\ pc[g] = "idle"
    /\ CalculateHash(ConcPhoto) \notin DOMAIN hashDB
    /\ ConcToken \in DOMAIN sessions => sessions[ConcToken].Skipped < MaxSkipped
    /\ locks' = RLock(locks, SessionsMu, g)
    /\ Goto(g, "sync_get")
    /\ UNCHANGED <<sessions, issued, ingestVars, timeVars, resp, local>>

\* Get returns; the file is read, the capture time is now, and
\* CheckDuplicate calls dc.mu.RLock
SyncGet(g) ==
    /\ pc[g] = "sync_get"
    /\ HoldsRead(SessionsMu, g)
    /\ IF ConcToken \in DOMAIN sessions
       THEN /\ locks' = RLock(RUnlock(locks, SessionsMu, g), HashMu, g)
            /\ Goto(g, "sync_tier1")
            /\ local' = [local EXCEPT ![g] =
                            [dropped |-> InMap,
                             dateTaken |-> ParseDateTaken(NoDateStr, clock),
                             dup |-> NoInfo, reason |-> "", relPath |-> NoPath]]
            /\ UNCHANGED resp
       ELSE /\ locks' = RUnlock(locks, SessionsMu, g)
            /\ Finish(g)
            /\ resp' = Resp("sync", ConcToken, 404, "session not found", NoBody)
    /\ UNCHANGED <<sessions, issued, ingestVars, timeVars>>

\* CheckDuplicate, tier 1, under dc.mu: a hit returns (the deferred RUnlock
\* runs); a miss calls GetPhotosByCounter, which calls idx.mu.RLock while
\* dc.mu is still read-locked
SyncTier1(g) ==
    LET fileHash == CalculateHash(ConcPhoto)
    IN  /\ pc[g] = "sync_tier1"
        /\ HoldsRead(HashMu, g)
        /\ IF fileHash \in DOMAIN hashDB
           THEN /\ locks' = RUnlock(locks, HashMu, g)
                /\ local' = [local EXCEPT ![g].dup = hashDB[fileHash], ![g].reason = "hash"]
                /\ Goto(g, "sync_dup_lock")
           ELSE /\ locks' = RLock(locks, IndexMu, g)
                /\ Goto(g, "sync_tier2")
                /\ UNCHANGED local
        /\ UNCHANGED <<sessions, issued, ingestVars, timeVars, resp>>

\* GetPhotosByCounter returns and unlocks idx.mu, the tier-2 loop runs,
\* CheckDuplicate returns and unlocks dc.mu.  No duplicate: the comment is
\* scanned for and the file is saved.
SyncTier2(g) ==
    LET fileHash == CalculateHash(ConcPhoto)
        dup == CheckDuplicateNoTier1(hashDB, index, fileHash, Len(ConcPhoto),
                                     ConcCounter, local[g].dateTaken)
        saved == SaveFile(files, nanos, NameJpg, ConcPhoto, "ok")
    IN  /\ pc[g] = "sync_tier2"
        /\ HoldsRead(IndexMu, g)
        /\ locks' = RUnlock(RUnlock(locks, IndexMu, g), HashMu, g)
        /\ IF ~dup.info.nil
           THEN /\ local' = [local EXCEPT ![g].dup = dup.info, ![g].reason = dup.reason]
                /\ Goto(g, "sync_dup_lock")
                /\ UNCHANGED <<files, nanos>>
           ELSE /\ files' = saved.files
                /\ nanos' = saved.nanos
                /\ local' = [local EXCEPT ![g].relPath = saved.relPath]
                /\ Goto(g, "sync_add_lock")
        /\ UNCHANGED <<sessions, issued, hashDB, index, disk, timeVars, resp>>

\* the duplicate branch: Update, and the answer read through the pointer
SyncDup(g) ==
    LET updater == [t \in DOMAIN sessions |-> DuplicateUpdater(sessions[t], NameJpg)]
    IN  /\ pc[g] = "sync_dup"
        /\ WriterEntered(locks, SessionsMu, g)
        /\ sessions' = StoreUpdate(sessions, ConcToken, updater, clock)
        /\ locks' = Unlock(locks, SessionsMu)
        /\ resp' = Resp("sync", ConcToken, 200, "",
                        SyncBody(Deref(local[g], sessions'), local[g].dup.Path,
                                 TRUE, local[g].reason))
        /\ Finish(g)
        /\ UNCHANGED <<issued, ingestVars, timeVars>>

\* AddPhoto under idx.mu
SyncAdd(g) ==
    LET added == AddPhoto(index, disk, ConcCounter, local[g].relPath,
                          FullPath(local[g].relPath), local[g].dateTaken, Len(ConcPhoto),
                          CalculateHash(ConcPhoto), EmptyText, "ok")
    IN  /\ pc[g] = "sync_add"
        /\ WriterEntered(locks, IndexMu, g)
        /\ index' = added.index
        /\ disk' = added.disk
        /\ locks' = Unlock(locks, IndexMu)
        /\ Goto(g, "sync_hash_lock")
        /\ local' = Realias(local, NormalizeCounterNumber(ConcCounter),
                            GetPhotosByCounter(index, ConcCounter),
                            GetPhotosByCounter(added.index, ConcCounter))
        /\ UNCHANGED <<sessions, issued, hashDB, files, nanos, timeVars, resp>>

\* AddHash under dc.mu
SyncHash(g) ==
    /\ pc[g] = "sync_hash"
    /\ WriterEntered(locks, HashMu, g)
    /\ hashDB' = AddHash(hashDB, CalculateHash(ConcPhoto), Len(ConcPhoto),
                         local[g].dateTaken, local[g].relPath)
    /\ locks' = Unlock(locks, HashMu)
    /\ Goto(g, "sync_update_lock")
    /\ UNCHANGED <<sessions, issued, index, disk, files, nanos, timeVars, resp, local>>

\* the saved branch: Update, and the answer read through the pointer
SyncUpdate(g) ==
    LET updater == [t \in DOMAIN sessions |-> SavedUpdater(sessions[t], NameJpg)]
    IN  /\ pc[g] = "sync_update"
        /\ WriterEntered(locks, SessionsMu, g)
        /\ sessions' = StoreUpdate(sessions, ConcToken, updater, clock)
        /\ locks' = Unlock(locks, SessionsMu)
        /\ resp' = Resp("sync", ConcToken, 200, "",
                        SyncBody(Deref(local[g], sessions'), local[g].relPath, FALSE, ""))
        /\ Finish(g)
        /\ UNCHANGED <<issued, ingestVars, timeVars>>

\* a request arrives at worker "w1", at worker "w2"
Begin1 == SyncBegin("w1") \/ StatusBegin("w1") \/ ListBegin("w1")
Begin2 == SyncBegin("w2") \/ InitBegin("w2") \/ DeleteBegin("w2")

\* a worker goes on with its request
Continue(g) ==
    \/ TakeWriterLock(g)
    \/ InitUpdate(g)
    \/ StatusGet(g)
    \/ StatusRead(g)
    \/ StatusRespond(g)
    \/ ListGet(g)
    \/ ListRespond(g)
    \/ DeleteDo(g)
    \/ SyncGet(g)
    \/ SyncTier1(g)
    \/ SyncTier2(g)
    \/ SyncDup(g)
    \/ SyncAdd(g)
    \/ SyncHash(g)
    \/ SyncUpdate(g)

\* cleanup goes on with its sweep
Sweep == TakeWriterLock(Sweeper) \/ SweepDo

\* the server has been up for a minute when the first client arrives
FirstMinute == issued = {} /\ AdvanceTime(Minute)

LockNext ==
    \/ LockStart
    \/ Begin1
    \/ Begin2
    \/ \E g \in Workers : Continue(g)
    \/ FirstMinute
    \/ SweepBegin
    \/ Sweep

LockSpec == Init /\ [][LockNext]_vars

\* The scheduler runs every goroutine that can run, and a goroutine that
\* waits for rw.w gets it (sync.Mutex hands the lock to a waiter that has
\* waited for a millisecond).  No client has to send a request.
FairLockSpec ==
    /\ LockSpec
    /\ \A g \in Workers : SF_vars(Continue(g))
    /\ SF_vars(Sweep)
    /\ WF_vars(SweepBegin)

----------------------------------------------------------------------------
(* SliceSpec: list-index requests of worker "w1" beside calls of AddPhoto  *)
(* that fill one bucket with photos of any capture time.                   *)

\* a call of Indexer.AddPhoto for the next photo of the bucket, from Lock
\* to Unlock, while idx.mu is free
SliceAddPhoto(date) ==
    LET before == GetPhotosByCounter(index, ConcCounter)
        relPath == RelPath(<<97>>, Len(before) + 1, DotJpg)
        added == AddPhoto(index, disk, ConcCounter, relPath, FullPath(relPath), date,
                          Len(ConcPhoto), CalculateHash(ConcPhoto), EmptyText, "ok")
    IN  /\ Len(before) < MaxBucket
        /\ locks[IndexMu] = Unlocked
        /\ index' = added.index
        /\ disk' = added.disk
        /\ local' = Realias(local, NormalizeCounterNumber(ConcCounter), before,
                            GetPhotosByCounter(added.index, ConcCounter))
        /\ UNCHANGED <<sessions, issued, hashDB, files, nanos, timeVars, resp, pc, locks>>

SliceNext ==
    \/ \E date \in IndexDates : SliceAddPhoto(date)
    \/ ListBegin("w1")
    \/ ListGet("w1")
    \/ ListRespond("w1")

SliceSpec == Init /\ [][SliceNext]_vars

----------------------------------------------------------------------------
(* RestartSpec: a server that is stopped and started again once.  The      *)
(* session map and the hash table start empty, the index is loaded from    *)
(* the index file; the files of the photo directory stay.  Session "t1"    *)
(* is the client before the restart, "t2" the client after it.             *)

\* main after a stop of the process: NewSessionStore, NewIndexer (with
\* loadIndex) and, in SetupRoutes, NewDuplicateCheck
Restart ==
    /\ "t1" \in issued
    /\ "t2" \notin issued
    /\ sessions' = <<>>
    /\ hashDB' = <<>>
    /\ index' = loadIndex(disk, clock)
    /\ tickPending' = FALSE
    /\ resp' = Resp("none", NoToken, 0, "", NoBody)
    /\ UNCHANGED <<issued, disk, files, nanos, clock, concVars>>

\* the server has been restarted: session t1 is gone though nothing deleted it
Restarted == "t1" \in issued /\ "t1" \notin DOMAIN sessions

\* the form fields sent with a photo: a counter number in two spellings or
\* another one or none, and capture times a second and more apart
RestartForms ==
    {[counterNumber |-> <<>>, dateTakenStr |-> NoDateStr],
     [counterNumber |-> CounterAB1, dateTakenStr |-> DateStr(2 * Second)],
     [counterNumber |-> Counterab1, dateTakenStr |-> DateStr(2 * Second + 1)],
     [counterNumber |-> Counterab1, dateTakenStr |-> DateStr(0)],
     [counterNumber |-> CounterZZ9, dateTakenStr |-> DateStr(2 * Second)]}

\* an ingest request of the client of the running server
RestartIngest(data, form) ==
    SyncHandler(IF Restarted THEN "t2" ELSE "t1", TRUE, TRUE, data,
                form.counterNumber, NameJpg, form.dateTakenStr, "ok", "ok")

RestartNext ==
    \/ StartHandler("t1")
    \/ Restarted /\ StartHandler("t2")
    \/ \E data \in IngestPayloads, form \in RestartForms : RestartIngest(data, form)
    \/ Restart

RestartSpec == Init /\ [][RestartNext]_vars

----------------------------------------------------------------------------
(* TrackSpec: one session through its statuses: initialized and            *)
(* initialized again with any total, and sent three photos, again and      *)
(* again, while the photo directory takes them or fails in every way.      *)

TrackNext ==
    \/ StartHandler("t1")
    \/ \E total \in 0..MaxTotal : InitHandler("t1", TRUE, total)
    \/ \E data \in SavablePayloads, saveOutcome \in SaveOutcomes :
          SyncHandler("t1", TRUE, TRUE, data, <<>>, NameJpg, DateStr(0), saveOutcome, "ok")

TrackSpec == Init /\ [][TrackNext]_vars

----------------------------------------------------------------------------
(* Properties of the session tracker under FrameSpec *)

\* the step records an upload event on session t: a new file or a duplicate
RecordedUpload(t) ==
    /\ t \in DOMAIN sessions
    /\ t \in DOMAIN sessions'
    /\ \/ sessions'[t].Uploaded = sessions[t].Uploaded + 1
       \/ sessions'[t].Skipped = sessions[t].Skipped + 1

\* C3: every recorded upload event on an existing session, a new file or a
\* duplicate, leaves the session Completed if uploaded + skipped >= total
\* after the increment, and Syncing otherwise.
C3_RecordedUploadSetsStatus ==
    [][\A t \in Tokens :
          RecordedUpload(t) =>
             sessions'[t].Status =
                IF sessions'[t].Uploaded + sessions'[t].Skipped >= sessions'[t].Total
                THEN StatusCompleted ELSE StatusSyncing]_vars

\* a duplicate was recorded on a session that has all its announced files,
\* and the session is Syncing
C3_DuplicateLeftSyncing ==
    \E t \in DOMAIN sessions :
       /\ resp.op = "sync" /\ resp.token = t /\ resp.code = 200
       /\ resp.body.isDuplicate
       /\ sessions[t].Total >= 1
       /\ sessions[t].Skipped >= 1
       /\ sessions[t].Uploaded + sessions[t].Skipped >= sessions[t].Total
       /\ sessions[t].Status = StatusSyncing

\* a request of FrameSpec that names token t: init, ingest or delete
RequestOn(t) ==
    \/ \E total \in {1, MaxTotal} : InitHandler(t, TRUE, total)
    \/ \E data \in SavablePayloads :
          SyncHandler(t, TRUE, TRUE, data, <<>>, NameJpg, DateStr(0), "ok", "ok")
    \/ DeleteSessionHandler(t)

\* C4: init, a recorded upload and delete on token t leave every session
\* with another token as it was, and make no session with another token.
C4_OtherSessionsUnchanged ==
    [][\A t \in Tokens :
          RequestOn(t) =>
             /\ \A u \in DOMAIN sessions \ {t} :
                   u \in DOMAIN sessions' /\ sessions'[u] = sessions[u]
             /\ DOMAIN sessions' \subseteq DOMAIN sessions \cup {t}]_vars

\* C4's scenario: t1 was initialised with total 3 and took three new files,
\* t2 was only created
C4_ScenarioReached ==
    /\ DOMAIN sessions = {"t1", "t2"}
    /\ sessions["t1"].Status = StatusCompleted
    /\ sessions["t1"].Total = 3
    /\ sessions["t1"].Uploaded = 3
    /\ sessions["t1"].Skipped = 0
    /\ sessions["t2"].Status = StatusWaiting
    /\ sessions["t2"].Total = 0
    /\ sessions["t2"].Uploaded = 0
    /\ sessions["t2"].Skipped = 0

\* C7: a session whose total is 0 reports progress 0 in every state, and its
\* first recorded upload event, a new file or a duplicate, moves it to
\* Completed.
C7_ZeroTotalCompletesOnFirstEvent ==
    [][/\ \A t \in DOMAIN sessions' :
             sessions'[t].Total = 0 => GetProgress(sessions'[t]) = 0
       /\ \A t \in Tokens :
             (/\ RecordedUpload(t)
              /\ sessions[t].Total = 0
              /\ sessions[t].Uploaded + sessions[t].Skipped = 0)
             => sessions'[t].Status = StatusCompleted]_vars

\* the first event of a session of total 0 was a duplicate, and the session
\* is Syncing
C7_ZeroTotalLeftSyncing ==
    \E t \in DOMAIN sessions :
       /\ sessions[t].Total = 0
       /\ sessions[t].Uploaded = 0
       /\ sessions[t].Skipped = 1
       /\ sessions[t].Status = StatusSyncing
       /\ GetProgress(sessions[t]) = 0

----------------------------------------------------------------------------
(* Properties of expiry and of rejected requests under Spec and FairSpec *)

\* session t exists and its last activity is more than one hour ago
IdleOverAnHour(t) ==
    /\ t \in DOMAIN sessions
    /\ clock - sessions[t].LastUpdate > Hour

\* C5: a session with no activity for more than one hour is removed by the
\* next sweep, after which get(token) reports not-found; with the sweep
\* kept running, a session that is past the hour is eventually removed
\* unless activity renews it first.
C5_IdleSessionIsSwept ==
    /\ [][cleanup =>
             \A t \in Tokens :
                IdleOverAnHour(t) => ~StoreGet(sessions', t).exists]_vars
    /\ \A t \in Tokens : IdleOverAnHour(t) ~> ~IdleOverAnHour(t)

\* t1 was created, nothing was asked of the server since, and the sweep
\* has removed it
C5_SweptAfterIdleHour ==
    /\ resp.op = "start"
    /\ resp.token = "t1"
    /\ clock > Hour
    /\ ~StoreGet(sessions, "t1").exists

\* a request of Spec that updates the session of token t: an init, or an
\* ingest that ends as saved, as duplicate or as a save error
UpdateOn(t) ==
    /\ t \in DOMAIN sessions
    /\ \/ \E total \in {0, MaxTotal} : InitHandler(t, TRUE, total)
       \/ \E saveOutcome \in {"ok", "dirfail"} :
             SyncHandler(t, TRUE, TRUE, NotJpeg, <<>>, NameJpg, DateStr(0), saveOutcome, "ok")

\* C6: the sweep keeps every session whose last activity is at most one
\* hour old, whenever it was created; every successful update renews the
\* last-activity time; a status read renews nothing.
C6_ExpiryCountsFromLastActivity ==
    [][/\ cleanup =>
             \A t \in DOMAIN sessions :
                clock - sessions[t].LastUpdate <= Hour =>
                   t \in DOMAIN sessions' /\ sessions'[t] = sessions[t]
       /\ \A t \in Tokens : UpdateOn(t) => sessions'[t].LastUpdate = clock
       /\ \A t \in Tokens \cup {NoToken} : StatusHandler(t) => sessions' = sessions]_vars

\* a session started more than an hour ago, active within the hour, is
\* still there after the sweep of this minute
C6_OldActiveSessionKept ==
    /\ "t1" \in DOMAIN sessions
    /\ ~tickPending
    /\ clock - sessions["t1"].StartTime > Hour
    /\ sessions["t1"].LastUpdate > sessions["t1"].StartTime
    /\ clock - sessions["t1"].LastUpdate <= Hour

\* a request of Spec that is a client input error: no token, a token
\* without a session, or no photo
ClientInputError ==
    \/ \E total \in {0, MaxTotal} : InitHandler(NoToken, TRUE, total)
    \/ \E t \in Tokens \ DOMAIN sessions, total \in {0, MaxTotal} : InitHandler(t, TRUE, total)
    \/ \E hasPhoto \in BOOLEAN : SyncRejected(NoToken, hasPhoto)
    \/ \E t \in Tokens \ DOMAIN sessions, hasPhoto \in BOOLEAN : SyncRejected(t, hasPhoto)
    \/ \E t \in Tokens \ DOMAIN sessions, saveOutcome \in {"ok", "dirfail"} :
          SyncHandler(t, TRUE, TRUE, NotJpeg, <<>>, NameJpg, DateStr(0), saveOutcome, "ok")
    \/ \E t \in DOMAIN sessions : SyncRejected(t, FALSE)
    \/ StatusHandler(NoToken)

\* C8: a client input error is answered with an error and changes neither
\* the session map, nor the hash table, nor the index, nor the file store.
C8_InputErrorChangesNothing ==
    [][ClientInputError =>
          /\ resp'.code \in {400, 404}
          /\ resp'.error # ""
          /\ UNCHANGED <<sessions, hashDB, index, disk, files>>]_vars

\* an init for a token without a session was refused while a session and a
\* stored photo exist
C8_UnknownTokenRefused ==
    /\ resp.op = "init"
    /\ resp.code = 404
    /\ sessions # <<>>
    /\ hashDB # <<>>

----------------------------------------------------------------------------
(* Properties of the ingest pipeline under IngestSpec *)

\* an ingest request of IngestSpec on session t1 that carries the payload
\* `data`, with any of the counter numbers, capture times, file names and
\* outcomes of the two disk writes that IngestSpec sends with it
IngestOf(data) ==
    \/ /\ data \in IngestPayloads
       /\ \E form \in IngestForms, persistOutcome \in PersistOutcomes :
             SyncHandler("t1", TRUE, TRUE, data, form.counterNumber, NameJpg, form.dateTakenStr, "ok", persistOutcome)
    \/ /\ data = NotJpeg
       /\ \E saveOutcome \in SaveOutcomes \ {"ok"} :
             SyncHandler("t1", TRUE, TRUE, data, Counterab1, NameJpg, DateStr(1), saveOutcome, "ok")
    \/ /\ data = JpegShortApp1
       /\ SyncHandler("t1", TRUE, TRUE, data, <<>>, NameJpg, NoDateStr, "ok", "ok")
    \/ /\ data = NotJpeg
       /\ SyncHandler("t1", TRUE, TRUE, data, <<>>, NoName, NoDateStr, "ok", "ok")

\* some file of the store holds the whole payload with this hash
Stored(store, hash) == \E q \in DOMAIN store : store[q].hash = hash /\ store[q].whole

\* some record of the index has this hash
Indexed(idx, hash) ==
    \E c \in DOMAIN idx : \E k \in 1..Len(idx[c]) : idx[c][k].Hash = hash

\* C1: an ingest that ends as saved has the file stored, indexed and its
\* hash in the hash table; a hash once in the table stays there; and every
\* ingest of a payload whose hash is in the table is answered as duplicate
\* with reason "hash" and stores no file and no index record, whatever the
\* identifier and capture time of the request.
C1_SavedHashIsDuplicateEverAfter ==
    [][\A data \in IngestPayloads :
          LET h == CalculateHash(data)
          IN  /\ (resp'.op = "sync" /\ resp'.code = 200 /\ IngestOf(data)
                                        /\ ~resp'.body.isDuplicate) =>
                    h \in DOMAIN hashDB' /\ Stored(files', h) /\ Indexed(index', h)
              /\ h \in DOMAIN hashDB => h \in DOMAIN hashDB'
              /\ ("t1" \in DOMAIN sessions /\ h \in DOMAIN hashDB /\ IngestOf(data)) =>
                    /\ resp'.code = 200
                    /\ resp'.body.isDuplicate
                    /\ resp'.body.reason = "hash"
                    /\ UNCHANGED <<files, index, disk, hashDB>>]_vars

\* a second ingest of a stored payload was answered as a duplicate by hash
C1_DuplicateByHashAnswered ==
    /\ resp.op = "sync"
    /\ resp.code = 200
    /\ resp.body.isDuplicate
    /\ resp.body.reason = "hash"
    /\ resp.body.filepath \in DOMAIN files
    /\ sessions["t1"].Uploaded >= 1
    /\ sessions["t1"].Skipped >= 1

\* an ingest of IngestSpec whose file save returns an error
FailedSave(saveOutcome) ==
    /\ SyncHandler("t1", TRUE, TRUE, NotJpeg, Counterab1, NameJpg, DateStr(1), saveOutcome, "ok")
    /\ resp'.error = "failed to save file"

\* C9: when the file save returns an error, the request is answered as a
\* failure, the error is appended to the session's errors, no file is stored
\* whole (the save is not tried again), the session's counts and status, the
\* index and the hash table stay as they were, and the same payload is still
\* no duplicate.
C9_SaveErrorOnlyRecordsError ==
    [][\A saveOutcome \in SaveOutcomes \ {"ok"} :
          FailedSave(saveOutcome) =>
             /\ resp'.code = 500
             /\ sessions'["t1"].Errors = Append(sessions["t1"].Errors, saveOutcome)
             /\ sessions'["t1"].Uploaded = sessions["t1"].Uploaded
             /\ sessions'["t1"].Skipped = sessions["t1"].Skipped
             /\ sessions'["t1"].Status = sessions["t1"].Status
             /\ UNCHANGED <<hashDB, index, disk>>
             /\ \A q \in DOMAIN files' \ DOMAIN files : ~files'[q].whole
             /\ CheckDuplicate(hashDB', index', CalculateHash(NotJpeg), Len(NotJpeg),
                               Counterab1, 1).info.nil]_vars

\* a save error was answered and recorded while another photo is stored
C9_SaveErrorRecorded ==
    /\ resp.op = "sync"
    /\ resp.error = "failed to save file"
    /\ Len(sessions["t1"].Errors) = 1
    /\ sessions["t1"].Uploaded >= 1
    /\ CalculateHash(NotJpeg) \notin DOMAIN hashDB

\* an ingest of IngestSpec of a new photo whose save succeeds and whose
\* index append returns an error
SavedButNotPersisted(data, counterNumber, dateTakenStr, persistOutcome) ==
    /\ "t1" \in DOMAIN sessions
    /\ CheckDuplicate(hashDB, index, CalculateHash(data), Len(data), counterNumber,
                      ParseDateTaken(dateTakenStr, clock)).info.nil
    /\ persistOutcome # "ok"
    /\ SyncHandler("t1", TRUE, TRUE, data, counterNumber, NameJpg, dateTakenStr, "ok", persistOutcome)

\* C10: when the save succeeds and the index append returns an error, the
\* client is answered success with the saved relative path, the hash is added
\* to the hash table, and the session is updated as by any saved ingest.
C10_IndexErrorStillSucceeds ==
    [][\A data \in IngestPayloads, form \in IngestForms,
          persistOutcome \in PersistOutcomes :
          SavedButNotPersisted(data, form.counterNumber, form.dateTakenStr, persistOutcome) =>
             /\ resp'.code = 200
             /\ ~resp'.body.isDuplicate
             /\ resp'.body.filepath \in DOMAIN files' \ DOMAIN files
             /\ files'[resp'.body.filepath].whole
             /\ CalculateHash(data) \in DOMAIN hashDB'
             /\ hashDB'[CalculateHash(data)].Path = resp'.body.filepath
             /\ sessions'["t1"] =
                   SessionUpdate(SavedUpdater(sessions["t1"], NameJpg), clock)
             /\ sessions'["t1"].Uploaded = sessions["t1"].Uploaded + 1]_vars

\* a photo was answered as saved while the index file holds no record of it
C10_SavedWithoutIndexFile ==
    /\ resp.op = "sync"
    /\ resp.code = 200
    /\ ~resp.body.isDuplicate
    /\ resp.body.filepath \in DOMAIN files
    /\ disk.state # "json"
    /\ sessions["t1"].Uploaded >= 1

----------------------------------------------------------------------------
(* Properties of the index under IndexSpec and AppendSpec *)

\* C2: after any sequence of AddPhoto calls, every bucket GetPhotosByCounter
\* returns is ordered by capture time descending and holds no two records
\* with the same relative path.
C2_BucketsSortedWithoutRepeatedPath ==
    \A counterNumber \in IndexCounters :
       LET photos == GetPhotosByCounter(index, counterNumber)
       IN  \A i \in 1..Len(photos) : \A j \in 1..Len(photos) :
              i < j => /\ ~Before(photos[i].Date, photos[j].Date)
                       /\ photos[i].Path # photos[j].Path

\* a bucket holds three photos of three capture times, the newest of them
\* under the path that sorts first, and the index request returned it
C2_BucketOfThreeDates ==
    LET photos == GetPhotosByCounter(index, CounterAB1)
    IN  /\ Len(photos) = 3
        /\ After(photos[1].Date, photos[2].Date)
        /\ After(photos[2].Date, photos[3].Date)
        /\ photos[1].Path.stamp < photos[3].Path.stamp
        /\ resp.op = "index"
        /\ resp.body.total = 3

\* what AddPhoto is called with besides counter number, path and capture
\* time: a size, a hash and a comment, here those IndexSpec stores and others
IndexContents ==
    {[size |-> Len(NotJpeg), hash |-> CalculateHash(NotJpeg), userComment |-> EmptyText],
     [size |-> Len(JpegWithComment), hash |-> CalculateHash(JpegWithComment),
      userComment |-> CounterZZ9]}

\* C11: AddPhoto with a relative path that the bucket of the normalized
\* counter number already holds returns no error and leaves the index (and
\* the index file) as it was, whatever capture time, size, hash and comment
\* it is called with; with a path the bucket does not hold, be it held by
\* another bucket, it appends one record with that path to the bucket.
C11_AddPhotoIdempotentByPath ==
    \A counterNumber \in IndexCounters, relPath \in IndexPaths :
       LET photos == GetPhotosByCounter(index, counterNumber)
       IN  \A date \in IndexDates, content \in IndexContents, outcome \in {"ok", "torn"} :
              LET added == AddPhoto(index, disk, counterNumber, relPath, FullPath(relPath), date,
                                    content.size, content.hash, content.userComment, outcome)
                  after == GetPhotosByCounter(added.index, counterNumber)
              IN  IF \E k \in 1..Len(photos) : photos[k].Path = relPath
                  THEN added = [index |-> index, disk |-> disk, err |-> FALSE]
                  ELSE /\ Len(after) = Len(photos) + 1
                       /\ \E k \in 1..Len(after) :
                             /\ after[k].Path = relPath
                             /\ after[k].Date = date
                             /\ after[k].Hash = content.hash

\* one path is held by two buckets, and a bucket holds two paths
C11_PathInTwoBuckets ==
    LET ab == GetPhotosByCounter(index, CounterAB1)
        zz == GetPhotosByCounter(index, CounterZZ9)
    IN  /\ Len(ab) = 2
        /\ Len(zz) = 1
        /\ \E k \in 1..2 : ab[k].Path = zz[1].Path /\ ab[k].Date # zz[1].Date

\* the document of the index file has a record of this path under this key
InDocument(file, key, relPath) ==
    /\ file.state = "json"
    /\ key \in DOMAIN file.doc
    /\ \E k \in DOMAIN file.doc[key] : file.doc[key][k].path = relPath

\* the bucket is ordered by capture time, newest first
SortedNewestFirst(photos) ==
    \A i \in 1..Len(photos) : \A j \in 1..Len(photos) :
       i < j => ~Before(photos[i].Date, photos[j].Date)

\* AddPhoto was called with a new path and the write of the index file
\* failed: the result `added` reports the error, has the record in its
\* bucket, which is sorted, shows it to a tier-2 duplicate check, and has no
\* such record in the document of the file
KeptWithoutFile(added, counterNumber, relPath, date) ==
    LET after == GetPhotosByCounter(added.index, counterNumber)
        dup == CheckDuplicate(<<>>, added.index, CalculateHash(NotJpeg), Len(NotJpeg),
                              counterNumber, date)
    IN  /\ added.err
        /\ \E k \in 1..Len(after) : after[k].Path = relPath /\ after[k].Date = date
        /\ SortedNewestFirst(after)
        /\ ~dup.info.nil
        /\ dup.reason = "counter_and_date"
        /\ dup.info.Hash = CalculateHash(NotJpeg)
        /\ ~InDocument(added.disk, NormalizeCounterNumber(counterNumber), relPath)

\* C12: in every state, when the write of the index file fails inside an
\* AddPhoto of a new path, AddPhoto returns an error and the new record
\* stays in the in-memory bucket in sorted position: GetPhotosByCounter and
\* a tier-2 duplicate check see it, and the document on disk does not have
\* it.
C12_FailedPersistKeepsRecord ==
    \A counterNumber \in IndexCounters, relPath \in IndexPaths :
       ~HasPath(GetPhotosByCounter(index, counterNumber), relPath) =>
          \A date \in IndexDates, outcome \in PersistOutcomes \ {"ok"} :
             KeptWithoutFile(AddPhoto(index, disk, counterNumber, relPath, FullPath(relPath),
                                      date, Len(NotJpeg), CalculateHash(NotJpeg), EmptyText,
                                      outcome),
                             counterNumber, relPath, date)

\* the index file was written with one record, and the write for a second,
\* newer record of the same bucket failed: memory holds two, the file one
C12_MemoryAheadOfFile ==
    LET photos == GetPhotosByCounter(index, CounterZZ9)
    IN  /\ Len(photos) = 2
        /\ After(photos[1].Date, photos[2].Date)
        /\ disk.state = "json"
        /\ DOMAIN disk.doc = {CounterZZ9}
        /\ Len(disk.doc[CounterZZ9]) = 1
        /\ disk.doc[CounterZZ9][1].path = photos[2].Path

\* C13: for every index built by AddPhoto calls, loadIndex applied to the
\* document saveIndex writes yields the same keys and, for each key, the
\* same records (path, fullPath, date, size, hash, comment) in the same
\* order.
C13_SaveThenLoadIsIdentity ==
    loadIndex(saveIndex(index, disk, "ok"), clock) = index

\* the index file holds the document of the index, and reloading it gives
\* the same keys and the same paths in the same order but another date
C13_ReloadedDateDiffers ==
    LET loaded == loadIndex(disk, clock)
    IN  /\ disk = saveIndex(index, disk, "ok")
        /\ DOMAIN loaded = DOMAIN index
        /\ \A c \in DOMAIN index :
              /\ Len(loaded[c]) = Len(index[c])
              /\ \A k \in 1..Len(index[c]) :
                    /\ loaded[c][k].Path = index[c][k].Path
                    /\ loaded[c][k].Hash = index[c][k].Hash
                    /\ loaded[c][k].Size = index[c][k].Size
                    /\ loaded[c][k].UserComment = index[c][k].UserComment
        /\ \E c \in DOMAIN index : \E k \in 1..Len(index[c]) :
              loaded[c][k].Date # index[c][k].Date

----------------------------------------------------------------------------
(* Properties of counter-number normalization under IndexSpec *)

\* the characters spellings are made of: A, a, 1, a hyphen, and the
\* Cyrillic letter ya in both cases
SpellingAlphabet == {65, 97, 49, 45, 1071, 1103}

\* every counter number of at most MaxSpelling characters
Spellings == UNION {[1..n -> SpellingAlphabet] : n \in 0..MaxSpelling}

\* a letter or digit: a character that is, in one case or the other, one of
\* a-z, 0-9, Cyrillic a-ya, io
LetterOrDigit(r) ==
    \/ (r >= 65 /\ r <= 90) \/ (r >= 97 /\ r <= 122)
    \/ (r >= 48 /\ r <= 57)
    \/ (r >= 1040 /\ r <= 1103)
    \/ r = 1025 \/ r = 1105

\* the same letter in the same or the other case
SameLetter(r, q) ==
    \/ r = q
    \/ (r >= 65 /\ r <= 90 /\ q = r + 32) \/ (q >= 65 /\ q <= 90 /\ r = q + 32)
    \/ (r >= 1040 /\ r <= 1071 /\ q = r + 32) \/ (q >= 1040 /\ q <= 1071 /\ r = q + 32)
    \/ (r = 1025 /\ q = 1105) \/ (q = 1025 /\ r = 1105)

\* x and y differ only in letter case or in characters that are no letters
\* or digits
SameSpelling(x, y) ==
    LET lx == SelectSeq(x, LetterOrDigit)
        ly == SelectSeq(y, LetterOrDigit)
    IN  /\ Len(lx) = Len(ly)
        /\ \A i \in 1..Len(lx) : SameLetter(lx[i], ly[i])

\* normalization is idempotent, and two spellings of one counter number
\* have one normal form
NormalizeCollapsesSpellings ==
    /\ \A x \in Spellings :
          NormalizeCounterNumber(NormalizeCounterNumber(x)) = NormalizeCounterNumber(x)
    /\ \A x \in Spellings : \A y \in Spellings :
          SameSpelling(x, y) => NormalizeCounterNumber(x) = NormalizeCounterNumber(y)

\* spellings AddPhoto and GetPhotosByCounter are called with
IndexSpellings == IndexCounters \cup {<<65, 45, 97>>, <<97, 97>>, <<1071, 49>>, <<45, 1103, 49>>}

\* C14: normalization is idempotent and gives two strings that differ only
\* in letter case or in characters other than letters and digits the same
\* key, so that in every state GetPhotosByCounter returns the same bucket
\* for both spellings and AddPhoto under one spelling fills the bucket that
\* GetPhotosByCounter returns under the other.
C14_SpellingsShareBucket ==
    /\ NormalizeCollapsesSpellings
    /\ \A x \in IndexSpellings : \A y \in IndexSpellings :
          SameSpelling(x, y) =>
             /\ GetPhotosByCounter(index, x) = GetPhotosByCounter(index, y)
             /\ \A relPath \in IndexPaths :
                   LET added == AddPhoto(index, disk, x, relPath, FullPath(relPath), 0,
                                         Len(NotJpeg), CalculateHash(NotJpeg), EmptyText, "ok")
                   IN  HasPath(GetPhotosByCounter(added.index, y), relPath)

\* the bucket of key "ab1" holds a photo and the index request that asked
\* for "AB-1" was answered with it
C14_OtherSpellingAnswered ==
    /\ resp.op = "index"
    /\ resp.body.counterNumber = CounterAB1
    /\ resp.body.total >= 1
    /\ DOMAIN index = {Counterab1}
    /\ resp.body.photos = index[Counterab1]

----------------------------------------------------------------------------
(* Properties of the comment scanner under ScanSpec *)

\* the payload an indexed photo was sent with
PayloadOf(photo) == photo.Hash[2]

\* FF D8 and an APP1 segment that lies within the buffer and carries the
\* Exif signature
BeginsWithExifSegment(data) ==
    /\ Len(data) >= 12
    /\ SubSeq(data, 1, 4) = <<255, 216, 255, 225>>
    /\ Uint16(data[5], data[6]) >= 8
    /\ 4 + Uint16(data[5], data[6]) <= Len(data)
    /\ SubSeq(data, 7, 12) = ExifHeader

\* the payload of that segment: the bytes behind the length field
SegmentPayload(data) == SubSeq(data, 7, 4 + Uint16(data[5], data[6]))

RunByte(b) == isAlphanumeric(b) \/ isCyrillic(b)

\* the maximal runs of letters and digits of s, as pairs of first and last
\* position
MaximalRuns(s) ==
    {r \in (1..Len(s)) \X (1..Len(s)) :
        /\ r[1] <= r[2]
        /\ \A k \in r[1]..r[2] : RunByte(s[k])
        /\ r[1] = 1 \/ ~RunByte(s[r[1] - 1])
        /\ r[2] = Len(s) \/ ~RunByte(s[r[2] + 1])}

\* the first maximal run of ten or more bytes that holds a digit, or <<>>
FirstLongRun(s) ==
    LET long == {r \in MaximalRuns(s) :
                    /\ r[2] - r[1] + 1 >= 10
                    /\ \E k \in r[1]..r[2] : s[k] >= 48 /\ s[k] <= 57}
    IN  IF long = {} THEN <<>>
        ELSE LET first == CHOOSE r \in long : \A q \in long : r[1] <= q[1]
             IN  SubSeq(s, first[1], first[2])

\* C15: a photo whose buffer begins with FF D8 and an APP1 segment with the
\* Exif signature is indexed with the first maximal run of letters and
\* digits of ten or more bytes that holds a digit as its comment, wherever
\* in the payload of the segment that run lies.
C15_FirstLongRunIsReturned ==
    \A c \in DOMAIN index : \A k \in 1..Len(index[c]) :
       LET data == PayloadOf(index[c][k])
       IN  BeginsWithExifSegment(data) =>
              LET run == FirstLongRun(SegmentPayload(data))
              IN  run # <<>> => index[c][k].UserComment = run

\* the photo whose segment ends with "ABC1234567" was indexed under
\* "unknown" without a comment
C15_RunAtEndOfSegmentMissed ==
    /\ Unknown \in DOMAIN index
    /\ \E k \in 1..Len(index[Unknown]) :
          /\ PayloadOf(index[Unknown][k]) = ExifJpeg(0, RunABC1234567, 0)
          /\ index[Unknown][k].UserComment = EmptyText

\* the walk over the segments of data stops at once with nothing found:
\* data does not begin with FF D8, or its first length field is below 2, or
\* the first segment is an APP1 segment that ends behind the buffer
WalkStopsAtOnce(data) ==
    \/ Len(data) < 2 \/ data[1] # 255 \/ data[2] # 216
    \/ /\ Len(data) >= 6
       /\ data[3] = 255
       /\ data[4] # 255
       /\ \/ Uint16(data[5], data[6]) < 2
          \/ data[4] = 225 /\ 4 + Uint16(data[5], data[6]) > Len(data)

\* C16: the scanner fails on no buffer, so that no upload is answered by
\* the recovery from a panic, and a photo whose buffer does not begin with
\* FF D8 or whose first length field is below 2 or points behind the end
\* of the buffer is indexed without a comment.
C16_ScannerIsTotal ==
    /\ ~(resp.op = "sync" /\ resp.error = "panic")
    /\ \A c \in DOMAIN index : \A k \in 1..Len(index[c]) :
          WalkStopsAtOnce(PayloadOf(index[c][k])) =>
             index[c][k].UserComment = EmptyText

\* an upload was answered 500 by the recovery from a panic and left no
\* file, no record and no change of the session behind
C16_UploadPanicked ==
    /\ resp.op = "sync"
    /\ resp.code = 500
    /\ resp.error = "panic"
    /\ files = <<>>
    /\ index = <<>>
    /\ "t1" \in DOMAIN sessions
    /\ sessions["t1"].Uploaded = 0

----------------------------------------------------------------------------
(* Properties of the locks under LockSpec and FairLockSpec *)

\* the mutexes g has called Lock or RLock of and not yet unlocked: those it
\* holds, those it waits for, and the one whose Lock it stands before
Engaged(g) ==
    Held(g) \cup Wanted(g)
       \cup (IF pc[g] \in DOMAIN LockCalls THEN {LockCalls[pc[g]]} ELSE {})

\* C17: the three lock domains are never nested: no goroutine holds the
\* lock of one domain while it acquires or holds the lock of another.
C17_LocksNeverNested == \A g \in Goroutines : Cardinality(Engaged(g)) <= 1

\* a duplicate check holds dc.mu read-locked and waits for idx.mu, which
\* the AddPhoto of the other worker has called Lock of
C17_HashLockHeldAtIndex ==
    \E g \in Workers :
       /\ pc[g] = "sync_tier2"
       /\ g \in locks[HashMu].readers
       /\ g \in locks[IndexMu].waiting
       /\ locks[IndexMu].writer \in Workers \ {g}

\* C18: no interleaving of the requests and the sweep deadlocks: every
\* goroutine that has begun a request or a sweep acquires each lock it
\* calls and completes.
C18_EveryRequestCompletes ==
    \A g \in Goroutines : (pc[g] # "idle") ~> (pc[g] = "idle")

\* cleanup has called Lock and waits for a reader to leave, while the
\* other worker's RLock waits behind cleanup
C18_ReaderWaitsBehindWriter ==
    /\ locks[SessionsMu].writer = Sweeper
    /\ pc[Sweeper] = "cleanup_do"
    /\ locks[SessionsMu].readers # {}
    /\ locks[SessionsMu].waiting # {}

\* C19: a status request reports the session as it was when Get returned
\* it: status, total, uploaded, skipped and currentFile all come from that
\* one state, whatever update of the session runs after the Get.
C19_StatusReportsSessionAsGot ==
    [][\A g \in Workers :
          StatusRespond(g) => resp'.body = StatusBody(local[g].got)]_vars

\* a status answer that mixes two states: the status of the session before
\* the init request and the total after it
C19_StatusMixesTwoStates ==
    /\ resp.op = "status"
    /\ resp.code = 200
    /\ resp.body.status = StatusWaiting
    /\ resp.body.total = MaxTotal

----------------------------------------------------------------------------
(* Properties of the returned bucket under SliceSpec *)

\* C20: the sequence GetPhotosByCounter returned keeps its length, its
\* order and its records, whatever AddPhoto runs after the call returned.
C20_ReceivedSliceUnchanged ==
    \A g \in Workers :
       "photos" \in DOMAIN local[g] => local[g].photos = local[g].received

\* a list-index request received three photos, and the slice it is about
\* to send starts with a photo that was added afterwards and has lost one
\* it received
C20_SliceShowsLaterPhoto ==
    \E g \in Workers :
       /\ pc[g] = "list_respond"
       /\ Len(local[g].received) = 3
       /\ Len(local[g].photos) = 3
       /\ ~HasPath(local[g].received, local[g].photos[1].Path)
       /\ ~HasPath(local[g].photos, local[g].received[3].Path)

----------------------------------------------------------------------------
(* Properties of the duplicate check under RestartSpec *)

\* the counter numbers and capture times a check is asked about
CheckCounters == {<<>>, Unknown, CounterAB1, Counterab1, CounterZZ9}
CheckDates == 0..(3 * Second)

\* the positions in the bucket of the identifier's normalized form whose
\* record has the hash h and a capture time less than a second from d
NearRecords(idx, h, c, d) ==
    LET key == NormalizeCounterNumber(c)
    IN  IF c = <<>> \/ c = Unknown \/ key \notin DOMAIN idx THEN {}
        ELSE {k \in 1..Len(idx[key]) :
                /\ idx[key][k].Hash = h
                /\ idx[key][k].Date - d < Second
                /\ d - idx[key][k].Date < Second}

ReingestOf(data) ==
    /\ Restarted
    /\ "t2" \in DOMAIN sessions
    /\ \E form \in RestartForms : RestartIngest(data, form)

\* C22: after a restart, an ingest of a payload whose hash is recorded in
\* the reloaded index is answered as a duplicate and stores no file and no
\* index record, whatever its identifier and capture time.
C22_ReingestAfterRestartIsDuplicate ==
    [][\A data \in IngestPayloads :
          (Indexed(index, CalculateHash(data)) /\ ReingestOf(data)) =>
              /\ resp'.code = 200
              /\ resp'.body.isDuplicate
              /\ UNCHANGED <<files, index, disk>>]_vars

\* after the restart one payload lies in the photo directory twice
C22_PayloadStoredTwice ==
    /\ Restarted
    /\ \E p, q \in DOMAIN files :
          p # q /\ files[p].whole /\ files[q].whole /\ files[p].hash = files[q].hash

----------------------------------------------------------------------------
(* The hash table against the index, under IngestSpec *)

\* the index in memory has a record of this hash and path
InIndex(idx, hash, relPath) ==
    \E c \in DOMAIN idx : \E k \in 1..Len(idx[c]) :
        idx[c][k].Hash = hash /\ idx[c][k].Path = relPath

\* the index file holds a document with a record of this hash and path
InIndexFile(file, hash, relPath) ==
    /\ file.state = "json"
    /\ \E c \in DOMAIN file.doc : \E k \in DOMAIN file.doc[c] :
          file.doc[c][k].hash = hash /\ file.doc[c][k].path = relPath

\* C23: every entry of the hash table has a record of the same hash and
\* relative path in the index, in memory and in the index file: the hash is
\* added only after the photo was saved and durably indexed.
C23_HashEntriesAreDurablyIndexed ==
    \A h \in DOMAIN hashDB :
        /\ InIndex(index, h, hashDB[h].Path)
        /\ InIndexFile(disk, h, hashDB[h].Path)

\* the hash table has an entry for a stored photo that the index holds in
\* memory and the index file, a document, does not
C23_HashEntryNotInIndexFile ==
    \E h \in DOMAIN hashDB :
        /\ hashDB[h].Path \in DOMAIN files
        /\ InIndex(index, h, hashDB[h].Path)
        /\ disk.state = "json"
        /\ ~InIndexFile(disk, h, hashDB[h].Path)

----------------------------------------------------------------------------
(* Two ingests of one payload side by side, under LockSpec *)

\* the files of the photo directory, the records of the index, that have
\* this hash
FilesOf(store, hash) == {p \in DOMAIN store : store[p].hash = hash}
RecordsOf(idx, hash) ==
    UNION {{<<c, k>> : k \in {j \in 1..Len(idx[c]) : idx[c][j].Hash = hash}} :
             c \in DOMAIN idx}

\* C24: ingests of byte-identical payloads, also two at a time, leave at
\* most one stored file and at most one index record of the payload: the
\* duplicate check and the insertion of the hash act as one step.
C24_IdenticalPayloadStoredOnce ==
    /\ Cardinality(FilesOf(files, CalculateHash(ConcPhoto))) <= 1
    /\ Cardinality(RecordsOf(index, CalculateHash(ConcPhoto))) <= 1

\* both workers were answered, the payload is stored twice and indexed
\* twice, and the hash table names one of the two files
C24_BothIngestsSaved ==
    /\ pc["w1"] = "idle"
    /\ pc["w2"] = "idle"
    /\ Cardinality(FilesOf(files, CalculateHash(ConcPhoto))) = 2
    /\ Cardinality(RecordsOf(index, CalculateHash(ConcPhoto))) = 2
    /\ CalculateHash(ConcPhoto) \in DOMAIN hashDB
    /\ resp.op = "sync"
    /\ ~resp.body.isDuplicate

----------------------------------------------------------------------------
(* The counters of the session under LockSpec *)

\* the step leaves session t1 in the map with `up` more uploaded and `skip`
\* more skipped
CountersMove(up, skip) ==
    /\ ConcToken \in DOMAIN sessions
    /\ ConcToken \in DOMAIN sessions'
    /\ sessions'[ConcToken].Uploaded = sessions[ConcToken].Uploaded + up
    /\ sessions'[ConcToken].Skipped = sessions[ConcToken].Skipped + skip

\* C25: no update of the counters is lost.  Every ingest answered as saved
\* (its photo is stored and indexed) adds one to the uploaded count of the
\* session its request was accepted for; every ingest answered as a
\* duplicate of a session still there adds one to its skipped count; and
\* no other step changes the counters of a session that stays.
C25_EveryIngestIsCounted ==
    [][/\ \A g \in Workers : SyncUpdate(g) => CountersMove(1, 0)
       /\ \A g \in Workers :
             (SyncDup(g) /\ ConcToken \in DOMAIN sessions) => CountersMove(0, 1)
       /\ ( /\ ConcToken \in DOMAIN sessions
            /\ ConcToken \in DOMAIN sessions'
            /\ \A g \in Workers : ~SyncUpdate(g) /\ ~SyncDup(g) ) =>
             CountersMove(0, 0)]_vars

\* an ingest was answered as saved, with an uploaded count of 0, after its
\* session was dropped from the map
C25_SavedPhotoNotCounted ==
    /\ resp.op = "sync"
    /\ resp.code = 200
    /\ ~resp.body.isDuplicate
    /\ resp.body.filepath \in DOMAIN files
    /\ resp.body.uploaded = 0
    /\ ConcToken \notin DOMAIN sessions
    /\ Indexed(index, CalculateHash(ConcPhoto))

----------------------------------------------------------------------------
(* The status of the session under TrackSpec *)

\* C26: a session that is Completed has uploaded + skipped >= total; the
\* status of a session is Waiting, Ready, Syncing or Completed, never Error,
\* after any sequence of start, init (also a repeated one with another
\* total), saved, duplicate and failed uploads.
C26_CompletedMeansAllReceived ==
    \A t \in DOMAIN sessions :
        /\ sessions[t].Status = StatusCompleted =>
              sessions[t].Uploaded + sessions[t].Skipped >= sessions[t].Total
        /\ sessions[t].Status \in
              {StatusWaiting, StatusReady, StatusSyncing, StatusCompleted}

\* the session was completed by its last photo, of as many as the total
\* says, after a save had failed
C26_CompletedAfterSaveError ==
    /\ "t1" \in DOMAIN sessions
    /\ sessions["t1"].Status = StatusCompleted
    /\ sessions["t1"].Total = MaxTotal
    /\ sessions["t1"].Uploaded + sessions["t1"].Skipped = MaxTotal
    /\ Len(sessions["t1"].Errors) >= 1

----------------------------------------------------------------------------
(* The index file against the index in memory, under AppendSpec *)

\* the index file holds the document of this index
FileEqualsMemory(file, idx) == file = JsonFile(IndexData(idx))

\* the bucket of the counter number holds a record of this path
PathInBucket(idx, counterNumber, relPath) ==
    LET key == NormalizeCounterNumber(counterNumber)
    IN  /\ key \in DOMAIN idx
        /\ \E k \in 1..Len(idx[key]) : idx[key][k].Path = relPath

\* C27 as claimed: in every state, every call of AddPhoto that returns
\* success leaves the index file equal to the index in memory, also after
\* an earlier write of the file failed.
C27_SuccessMeansFileEqualsMemory ==
    \A counterNumber \in IndexCounters, relPath \in IndexPaths :
       \A date \in IndexDates, outcome \in PersistOutcomes :
          LET added == AddPhoto(index, disk, counterNumber, relPath, FullPath(relPath),
                                date, Len(NotJpeg), CalculateHash(NotJpeg), EmptyText,
                                outcome)
          IN  ~added.err => FileEqualsMemory(added.disk, added.index)

\* C27 amended: in every state, every call of AddPhoto with a path its
\* bucket does not hold that returns success leaves the index file equal to
\* the index in memory, also after an earlier write of the file failed.
C27_AppendSuccessMeansFileEqualsMemory ==
    \A counterNumber \in IndexCounters, relPath \in IndexPaths :
       ~PathInBucket(index, counterNumber, relPath) =>
          \A date \in IndexDates, outcome \in PersistOutcomes :
             LET added == AddPhoto(index, disk, counterNumber, relPath, FullPath(relPath),
                                   date, Len(NotJpeg), CalculateHash(NotJpeg), EmptyText,
                                   outcome)
             IN  ~added.err => FileEqualsMemory(added.disk, added.index)

\* an earlier write failed and left the file, a document, behind memory,
\* and AddPhoto of another photo to the same bucket, its write succeeding,
\* makes the file equal to memory again
C27_AppendEndsDivergence ==
    LET zz == GetPhotosByCounter(index, CounterZZ9)
        relPath == RelPath(<<97>>, 3, DotJpg)
        added == AddPhoto(index, disk, CounterZZ9, relPath, FullPath(relPath), 0,
                          Len(NotJpeg), CalculateHash(NotJpeg), EmptyText, "ok")
    IN  /\ Len(zz) = 2
        /\ ~PathInBucket(index, CounterZZ9, relPath)
        /\ disk.state = "json"
        /\ ~FileEqualsMemory(disk, index)
        /\ ~added.err
        /\ Len(GetPhotosByCounter(added.index, CounterZZ9)) = 3
        /\ FileEqualsMemory(added.disk, added.index)

----------------------------------------------------------------------------
(* The second tier of the duplicate check under IngestSpec: a server that  *)
(* started with an empty index and handles one ingest at a time.           *)

\* C28: whenever a check starts, every hash recorded in the index has an
\* entry in the hash table; so no check, for any payload, counter number
\* and capture time, returns reason "counter_and_date", and no ingest is
\* answered with it.
C28_SecondTierNeverAnswers ==
    /\ \A c \in DOMAIN index : \A k \in 1..Len(index[c]) :
          index[c][k].Hash \in DOMAIN hashDB
    /\ \A data \in IngestPayloads, c \in CheckCounters, d \in CheckDates :
          CheckDuplicate(hashDB, index, CalculateHash(data), Len(data), c,
                         d).reason # "counter_and_date"
    /\ (resp.op = "sync" /\ resp.code = 200) =>
          resp.body.reason # "counter_and_date"

\* a photo indexed under "ab1" with its capture time was sent again with
\* the same counter number and capture time, which the second tier would
\* match, and was answered as a duplicate by hash
C28_NearDuplicateAnsweredByHash ==
    /\ resp.op = "sync"
    /\ resp.code = 200
    /\ resp.body.isDuplicate
    /\ resp.body.reason = "hash"
    /\ \E data \in IngestPayloads :
          /\ NearRecords(index, CalculateHash(data), CounterAB1, 2 * Second) # {}
          /\ CalculateHash(data) \in DOMAIN hashDB
          /\ hashDB[CalculateHash(data)].Path = resp.body.filepath

====
